---- MODULE Spec2Model ----
(***************************************************************************)
(* Change-graph coordination engine of the web client:                     *)
(*   - the proposedActions getter of the actions store (linearize),        *)
(*   - the getDependentComponents getter of the components store           *)
(*     (reachableFrom),                                                    *)
(*   - the optimistic mutations of the components store and the full       *)
(*     refresh FETCH_DIAGRAM_DATA,                                         *)
(*   - the keyed remote calls, the bulk operations and the realtime event  *)
(*     callbacks of the components store,                                  *)
(*   - the status_updates table of the dependent-value jobs.               *)
(* Each part has its own specification over the module's variables; the    *)
(* parts a specification does not use stay idle.                           *)
(***************************************************************************)
EXTENDS Integers, Sequences, FiniteSets, TLC

VARIABLES
  \* ---- actions store: proposedActions getter ----
  selectedChangeSet,  \* changeSetsStore.selectedChangeSet: [present, actions |-> entries in key order]
  actions,            \* the getter's local output list
  proposedActions,    \* the value last returned by the getter (<<>> before the first return)
  linPc,              \* "idle" | "running": position of the getter
  linIters,           \* iterations of the while loop in the current evaluation
  linInput,           \* the action map as it was when the current/last evaluation started
  linEvals,           \* completed evaluations of the getter
  linFirst,           \* value returned by the first evaluation (<<>> before it)
  \* ---- components store: getDependentComponents getter ----
  walkEdges,          \* _.values(state.edgesById) at the call, in key order
  walkRoot,           \* the componentId argument
  connectedNodes,     \* adjacency lists built by the first loop
  connectedIds,       \* the result list
  walkStack,          \* call stack of walkGraph: frames [id, idx]
  walkPc,             \* "build" | "walk" | "done"
  walkSteps,          \* forEach iterations and returns executed so far
  \* ---- components store: state, optimistic mutations, refresh ----
  rawComponentsById,  \* state.rawComponentsById: component id -> component
  edgesById,          \* state.edgesById: edge key -> the edge object stored under it
  objs,               \* the edge objects: object -> its fields
  selectedEdgeId,     \* state.selectedEdgeId (0 for null)
  requests,           \* the ApiRequests in flight, with what their rollback closures captured
  pendingFetches,     \* FETCH_DIAGRAM_DATA requests in flight
  nextEdgeId,         \* the id the server gives to the next created connection
  srvEnds,            \* the endpoints of every edge id the server has assigned
  srvComps,           \* the component ids the server has
  threw               \* a handler has thrown a TypeError

VARIABLES
  \* ---- remote calls of the keyed mutations ----
  inFlight,           \* the remote calls in flight, oldest first: [op, id, key]
  keyQueue,           \* the intents waiting behind a call with the same key, oldest first
  \* ---- DELETE_COMPONENTS / RESTORE_COMPONENTS ----
  bulkOp,             \* "" | "DELETE_COMPONENTS" | "RESTORE_COMPONENTS"
  bulkIds,            \* the componentIds argument
  bulkLog,            \* the component ids whose call the series has started, in order
  bulkPc,             \* "off" | "idle" | "series" | "done"
  \* ---- activation and realtime events ----
  changeSetId,        \* the change-set the store was made for (0 for none)
  activated,          \* the store is activated
  subscriptions,      \* realtime store: the topic each subscriber id is subscribed to
  codeFetches,        \* component ids FETCH_COMPONENT_CODE was called with, in order
  lastEvent,          \* the realtime event whose callback ran last: [eventType, payload]
  \* ---- server state and refresh responses ----
  serverComponents,   \* the server's components of the change-set
  responses,          \* get_diagram responses on their way to the client
  unanswered,         \* get_diagram requests the server has not answered yet
  srvChanges,         \* changes the server has made so far
  freshFetch,         \* a refresh was issued after the last server change
  \* ---- status_updates table ----
  status_updates,     \* the rows of the table, in order of insertion
  \* ---- workers of the dependent-value jobs ----
  workers,            \* the last claim attempt of each worker: [pk, id, outcome]
  \* ---- components store: derived views ----
  viewPc,             \* "off" | "idle" | "path" | "deep" | "done": position of the getter being read
  viewGetter,         \* the getter read last ("" before the first)
  viewOut,            \* the value built by the getter so far, its result when done
  viewStack,          \* call stack of processList / getDeepChildIds
  viewTodo,           \* component ids _.mapValues has still to visit
  viewSteps           \* calls and returns executed by the getter so far

VARIABLES
  \* ---- components store: selection ----
  selectedComponentIds,    \* state.selectedComponentIds
  selectedBefore,          \* per request in flight: selectedEdgeId just before its operation was performed
  \* ---- workspaces store ----
  workspacesByPk,          \* state.workspacesByPk: the pks it holds
  workspaceImportSummary,  \* state.workspaceImportSummary (0 for null, else the requesting user)
  workspaceApprovals,      \* state.workspaceApprovals: user -> vote
  importCompletedAt,       \* state.importCompletedAt (0 for null)
  importCancelledAt,       \* state.importCancelledAt (0 for null)
  urlSelectedWorkspaceId,  \* route.params.workspacePk (0 for undefined)
  workspaceTopic,          \* the topic the store subscribed to (<<>> before activation)
  workspaceRequests,       \* the store's remote calls in flight
  workspaceLog,            \* the realtime events whose callback has run, oldest first
  \* ---- feature flags store ----
  featureFlags,            \* the store's state: store flag -> boolean
  flagsActivated,          \* the posthog callback is registered
  phDelivered              \* the flag lists the callback has been called with, oldest first

\* selectedChangeSet is undefined when no change-set is selected.
NoChangeSet == [present |-> FALSE, actions |-> <<>>]

linVars == <<selectedChangeSet, actions, proposedActions, linPc, linIters, linInput,
             linEvals, linFirst>>
walkVars == <<walkEdges, walkRoot, connectedNodes, connectedIds, walkStack, walkPc, walkSteps>>
storeVars == <<rawComponentsById, edgesById, objs, selectedEdgeId, requests, pendingFetches,
               nextEdgeId, srvEnds, srvComps, threw>>
keyedVars == <<inFlight, keyQueue>>
bulkVars == <<bulkOp, bulkIds, bulkLog, bulkPc>>
eventVars == <<changeSetId, activated, subscriptions, codeFetches, lastEvent>>
syncVars == <<serverComponents, responses, unanswered, srvChanges, freshFetch>>
jobVars == <<status_updates>>
workerVars == <<workers>>
viewVars == <<viewPc, viewGetter, viewOut, viewStack, viewTodo, viewSteps>>
selectVars == <<selectedComponentIds, selectedBefore>>
workspaceVars == <<workspacesByPk, workspaceImportSummary, workspaceApprovals, importCompletedAt,
                   importCancelledAt, urlSelectedWorkspaceId, workspaceTopic, workspaceRequests,
                   workspaceLog>>
flagVars == <<featureFlags, flagsActivated, phDelivered>>
restVars == <<selectVars, workspaceVars, flagVars>>
extVars == <<keyedVars, bulkVars, eventVars, syncVars, jobVars, workerVars, viewVars, restVars>>
vars == <<linVars, walkVars, storeVars, extVars>>

\* The parts a specification does not use stay as they are constructed.
KeyedIdle ==
  /\ inFlight = <<>>
  /\ keyQueue = <<>>

BulkIdle ==
  /\ bulkOp = ""
  /\ bulkIds = <<>>
  /\ bulkLog = <<>>
  /\ bulkPc = "off"

EventIdle ==
  /\ changeSetId = 0
  /\ activated = FALSE
  /\ subscriptions = <<>>
  /\ codeFetches = <<>>
  /\ lastEvent = [eventType |-> "", payload |-> 0]

SyncIdle ==
  /\ serverComponents = <<>>
  /\ responses = <<>>
  /\ unanswered = 0
  /\ srvChanges = 0
  /\ freshFetch = FALSE

JobIdle == status_updates = <<>>

\* no worker has attempted a claim
WorkerIdle == workers = <<>>

\* no derived view is being read
ViewIdle ==
  /\ viewPc = "off"
  /\ viewGetter = ""
  /\ viewOut = <<>>
  /\ viewStack = <<>>
  /\ viewTodo = <<>>
  /\ viewSteps = 0

\* nothing is selected but what the edge operations select
SelectIdle ==
  /\ selectedComponentIds = <<>>
  /\ selectedBefore = <<>>

\* the workspaces store as constructed, not activated
WorkspaceIdle ==
  /\ workspacesByPk = {}
  /\ workspaceImportSummary = 0
  /\ workspaceApprovals = <<>>
  /\ importCompletedAt = 0
  /\ importCancelledAt = 0
  /\ urlSelectedWorkspaceId = 0
  /\ workspaceTopic = <<>>
  /\ workspaceRequests = <<>>
  /\ workspaceLog = <<>>

\* the feature flags store is not constructed
FlagIdle ==
  /\ featureFlags = <<>>
  /\ flagsActivated = FALSE
  /\ phDelivered = <<>>

RestIdle == SelectIdle /\ WorkspaceIdle /\ FlagIdle

ExtIdle ==
  /\ KeyedIdle /\ BulkIdle /\ EventIdle /\ SyncIdle /\ JobIdle /\ WorkerIdle /\ ViewIdle
  /\ RestIdle

\* ------------------------------------------------------------------------
\* Generic helpers
\* ------------------------------------------------------------------------
Range(s) == {s[i] : i \in 1..Len(s)}

SeqsUpTo(S, n) == UNION {[1..k -> S] : k \in 0..n}

NoDupSeqs(S, n) == {s \in SeqsUpTo(S, n) : \A i, j \in 1..Len(s) : i # j => s[i] # s[j]}

Perms(S) == {s \in [1..Cardinality(S) -> S] : Range(s) = S}

\* ------------------------------------------------------------------------
\* Action scheduler: proposedActions (linearize)
\* ------------------------------------------------------------------------
MaxActions == 3
MaxParents == 2
MaxIters == 6
MaxEvals == 2

\* Action ids; their numeric order stands for the collation order of
\* a.localeCompare(b) on the id strings.
ActionIds == 1..MaxActions

ParentLists(allIds) == NoDupSeqs(allIds, MaxParents)

\* An action map: entries [id, parents] in the object's key (insertion) order.
ActionMaps(allIds, parentLists) ==
  UNION { UNION { { [i \in 1..Len(order) |-> [id |-> order[i], parents |-> ps[order[i]]]]
                    : ps \in [ids -> parentLists] }
                  : order \in Perms(ids) }
          : ids \in SUBSET allIds }

keys(graph) == [i \in 1..Len(graph) |-> graph[i].id]

\* sortedEntries.sort(([a], [b]) => a.localeCompare(b)): insertion of each
\* entry into an id-ordered list.
RECURSIVE InsertById(_, _)
InsertById(e, sorted) ==
  IF sorted = <<>> THEN <<e>>
  ELSE IF e.id < Head(sorted).id THEN <<e>> \o sorted
  ELSE <<Head(sorted)>> \o InsertById(e, Tail(sorted))

RECURSIVE SortById(_)
SortById(entries) ==
  IF entries = <<>> THEN <<>>
  ELSE InsertById(Head(entries), SortById(Tail(entries)))

\* parents.findIndex((parentId) => parentId === removeId), 1-based; 0 for -1.
findIndex(parents, removeId) ==
  IF \E i \in 1..Len(parents) : parents[i] = removeId
  THEN CHOOSE i \in 1..Len(parents) :
         parents[i] = removeId /\ \A j \in 1..(i - 1) : parents[j] # removeId
  ELSE 0

\* childAction.parents.splice(index): with one argument, splice removes every
\* element from index to the end of the list.
splice(parents, index) == SubSeq(parents, 1, index - 1)

\* delete graph[removeId]; then strip removeId from the remaining actions.
RemoveOne(graph, removeId) ==
  LET rest == SelectSeq(graph, LAMBDA e : e.id # removeId)
  IN [i \in 1..Len(rest) |->
        LET index == findIndex(rest[i].parents, removeId)
        IN IF index # 0
           THEN [rest[i] EXCEPT !.parents = splice(rest[i].parents, index)]
           ELSE rest[i]]

RECURSIVE RemoveAll(_, _)
RemoveAll(graph, removeIds) ==
  IF removeIds = <<>> THEN graph
  ELSE RemoveAll(RemoveOne(graph, Head(removeIds)), Tail(removeIds))

\* The entries released by one iteration of the while loop, in sorted order.
Released(graph) == SelectSeq(SortById(graph), LAMBDA e : Len(e.parents) = 0)

\* The getter is read: graph = selectedChangeSet?.actions ?? {}, actions = [].
\* graph is the store's own object, not a copy.
GetterStart ==
  /\ linPc = "idle"
  /\ linEvals < MaxEvals
  /\ linPc' = "running"
  /\ actions' = <<>>
  /\ linIters' = 0
  /\ linInput' = IF ~selectedChangeSet.present THEN <<>> ELSE selectedChangeSet.actions
  /\ UNCHANGED <<selectedChangeSet, proposedActions, linEvals, linFirst>>

\* One iteration of while (_.keys(graph).length).
LinIterate ==
  /\ linPc = "running"
  /\ selectedChangeSet.present
  /\ Len(keys(selectedChangeSet.actions)) # 0
  /\ linIters < MaxIters
  /\ LET graph == selectedChangeSet.actions
         released == Released(graph)
     IN /\ actions' = actions \o released
        /\ selectedChangeSet' =
             [selectedChangeSet EXCEPT !.actions = RemoveAll(graph, keys(released))]
  /\ linIters' = linIters + 1
  /\ UNCHANGED <<proposedActions, linPc, linInput, linEvals, linFirst>>

\* The loop condition is false: return actions.
LinReturn ==
  /\ linPc = "running"
  /\ \/ ~selectedChangeSet.present
     \/ Len(keys(selectedChangeSet.actions)) = 0
  /\ proposedActions' = actions
  /\ linFirst' = IF linEvals = 0 THEN actions ELSE linFirst
  /\ linEvals' = linEvals + 1
  /\ linPc' = "idle"
  /\ UNCHANGED <<selectedChangeSet, actions, linIters, linInput>>

\* The components store as constructed: state: () => ({...}).
StoreConstructed ==
  /\ rawComponentsById = <<>>
  /\ edgesById = <<>>
  /\ objs = <<>>
  /\ selectedEdgeId = 0
  /\ pendingFetches = 0
  /\ threw = FALSE

StoreIdle ==
  /\ StoreConstructed
  /\ requests = <<>>
  /\ nextEdgeId = 0
  /\ srvEnds = <<>>
  /\ srvComps = {}

WalkIdle ==
  /\ walkEdges = <<>>
  /\ walkRoot = 0
  /\ connectedNodes = <<>>
  /\ connectedIds = <<>>
  /\ walkStack = <<>>
  /\ walkPc = "off"
  /\ walkSteps = 0

InitLin ==
  /\ selectedChangeSet \in {NoChangeSet} \cup {[present |-> TRUE, actions |-> m] : m \in ActionMaps(ActionIds, ParentLists(ActionIds))}
  /\ actions = <<>>
  /\ proposedActions = <<>>
  /\ linPc = "idle"
  /\ linIters = 0
  /\ linInput = <<>>
  /\ linEvals = 0
  /\ linFirst = <<>>
  /\ WalkIdle
  /\ StoreIdle
  /\ ExtIdle

NextLin ==
  \/ (GetterStart /\ UNCHANGED <<walkVars, storeVars, extVars>>)
  \/ (LinIterate /\ UNCHANGED <<walkVars, storeVars, extVars>>)
  \/ (LinReturn /\ UNCHANGED <<walkVars, storeVars, extVars>>)

SpecLin == InitLin /\ [][NextLin]_vars

\* ---- properties of the action sets ----
InputIds == Range(keys(linInput))

\* every parent id names an action of the set
Closed(graph) == \A i \in 1..Len(graph) : Range(graph[i].parents) \subseteq Range(keys(graph))

ParentsOf(graph, id) == UNION {Range(graph[i].parents) : i \in {j \in 1..Len(graph) : graph[j].id = id}}

RECURSIVE Ancestors(_, _, _)
Ancestors(graph, frontier, n) ==
  IF n = 0 THEN frontier
  ELSE Ancestors(graph, frontier \cup UNION {ParentsOf(graph, x) : x \in frontier}, n - 1)

\* some action is its own transitive predecessor
HasCycle(graph) ==
  \E i \in 1..Len(graph) :
     graph[i].id \in Ancestors(graph, Range(graph[i].parents), Len(graph))

PosIn(seq, id) == CHOOSE i \in 1..Len(seq) : seq[i].id = id

IdsOf(entries) == keys(entries)

\* ---- the scheduler the specification describes (Kahn generations) ----
RECURSIVE AscendingSeq(_)
AscendingSeq(S) ==
  IF S = {} THEN <<>>
  ELSE LET m == CHOOSE x \in S : \A y \in S : x <= y
       IN <<m>> \o AscendingSeq(S \ {m})

RECURSIVE KahnOrder(_, _, _)
KahnOrder(graph, remaining, removed) ==
  LET gen == {id \in remaining : ParentsOf(graph, id) \subseteq removed}
  IN IF gen = {} THEN <<>>
     ELSE AscendingSeq(gen) \o KahnOrder(graph, remaining \ gen, removed \cup gen)

Returned == linPc = "idle" /\ linEvals >= 1

\* C1: for every acyclic action set whose parent ids all name actions of the
\* set, the returned list places every action after all of its parents.
C1_ParentsBeforeChildren ==
  (Returned /\ Closed(linInput) /\ ~HasCycle(linInput)) =>
    \A i \in 1..Len(linInput) :
      /\ linInput[i].id \in Range(IdsOf(proposedActions))
      /\ \A p \in Range(linInput[i].parents) :
           /\ p \in Range(IdsOf(proposedActions))
           /\ PosIn(proposedActions, p) < PosIn(proposedActions, linInput[i].id)

\* C2: on an action set with a parent cycle the getter stops after a bounded
\* number of iterations (at most one per action, plus the one that detects
\* the cycle); it never keeps iterating.
C2_CycleStopsInBoundedIterations ==
  (linPc = "running" /\ HasCycle(linInput)) => linIters <= Len(linInput) + 1

\* C3: for every acyclic action set (here: one whose parent ids all name
\* actions of the set) the returned list is the concatenation of its Kahn
\* generations, each in ascending id order, so an action is released only
\* once every one of its parents has been removed.
C3_KahnGenerations ==
  (Returned /\ Closed(linInput) /\ ~HasCycle(linInput)) =>
    IdsOf(proposedActions) = KahnOrder(linInput, InputIds, {})

\* C4: evaluating the getter twice on the same change-set returns the same
\* sequence.
C4_SameSequenceTwice ==
  (linPc = "idle" /\ linEvals = 2) => proposedActions = linFirst

\* ------------------------------------------------------------------------
\* Graph store: getDependentComponents (reachableFrom)
\* ------------------------------------------------------------------------
MaxNodes == 3
MaxWalkEdges == 3
MaxWalkSteps == 12

NodeIds == 1..MaxNodes

WalkEdgeLists(nodes) == SeqsUpTo([fromNodeId : nodes, toNodeId : nodes], MaxWalkEdges)

\* _.each(_.values(state.edgesById), ...): connectedNodes[fromNodeId] ||= [];
\* connectedNodes[fromNodeId].push(toNodeId).  A node without outgoing edge
\* has no entry; <<>> stands for the missing entry (nextIds?.forEach skips it).
BuildConnectedNodes_reversed(edges) ==
  [n \in NodeIds |->
     LET out == SelectSeq(edges, LAMBDA e : e.toNodeId = n)
     IN [i \in 1..Len(out) |-> out[i].fromNodeId]]

BuildConnectedNodes_overwrite(edges) ==
  [n \in NodeIds |->
     LET out == SelectSeq(edges, LAMBDA e : e.fromNodeId = n)
     IN IF out = <<>> THEN <<>> ELSE <<out[Len(out)].toNodeId>>]

BuildConnectedNodes(edges) ==
  [n \in NodeIds |->
     LET out == SelectSeq(edges, LAMBDA e : e.fromNodeId = n)
     IN [i \in 1..Len(out) |-> out[i].toNodeId]]

\* connectedIds.includes(nid)
includes_never(ids, nid) == FALSE

includes(ids, nid) == nid \in Range(ids)

\* const connectedIds = [componentId]; walkGraph(componentId)
WalkEntry(componentId) ==
  [connectedIds |-> <<componentId>>, stack |-> <<[id |-> componentId, idx |-> 1]>>]

\* One step of walkGraph in the innermost call: the next element of
\* nextIds.forEach, or the return when the list is exhausted.
WalkStepFn(cn, ws) ==
  LET top == ws.stack[Len(ws.stack)]
      below == SubSeq(ws.stack, 1, Len(ws.stack) - 1)
      nextIds == cn[top.id]
  IN IF top.idx > Len(nextIds)
     THEN [ws EXCEPT !.stack = below]
     ELSE LET nid == nextIds[top.idx]
              advanced == below \o <<[top EXCEPT !.idx = top.idx + 1]>>
          IN IF includes(ws.connectedIds, nid)
             THEN [ws EXCEPT !.stack = advanced]
             ELSE [connectedIds |-> Append(ws.connectedIds, nid),
                   stack |-> advanced \o <<[id |-> nid, idx |-> 1]>>]

RECURSIVE RunWalk(_, _, _)
RunWalk(cn, ws, fuel) ==
  IF ws.stack = <<>> \/ fuel = 0 THEN ws.connectedIds
  ELSE RunWalk(cn, WalkStepFn(cn, ws), fuel - 1)

\* The whole getter as a function of the edge list and the root.
getDependentComponents(edges, componentId) ==
  RunWalk(BuildConnectedNodes(edges), WalkEntry(componentId), MaxWalkSteps)

\* The getter is called: the adjacency lists are built and walkGraph entered.
WalkStart ==
  /\ walkPc = "build"
  /\ connectedNodes' = BuildConnectedNodes(walkEdges)
  /\ connectedIds' = WalkEntry(walkRoot).connectedIds
  /\ walkStack' = WalkEntry(walkRoot).stack
  /\ walkPc' = "walk"
  /\ UNCHANGED <<walkEdges, walkRoot, walkSteps>>

WalkStep ==
  /\ walkPc = "walk"
  /\ walkStack # <<>>
  /\ walkSteps < MaxWalkSteps
  /\ LET ws == WalkStepFn(connectedNodes, [connectedIds |-> connectedIds, stack |-> walkStack])
     IN /\ connectedIds' = ws.connectedIds
        /\ walkStack' = ws.stack
  /\ walkSteps' = walkSteps + 1
  /\ UNCHANGED <<walkEdges, walkRoot, connectedNodes, walkPc>>

\* walkGraph(componentId) has returned: return connectedIds.
WalkReturn ==
  /\ walkPc = "walk"
  /\ walkStack = <<>>
  /\ walkPc' = "done"
  /\ UNCHANGED <<walkEdges, walkRoot, connectedNodes, connectedIds, walkStack, walkSteps>>

LinIdle ==
  /\ selectedChangeSet = NoChangeSet
  /\ actions = <<>>
  /\ proposedActions = <<>>
  /\ linPc = "off"
  /\ linIters = 0
  /\ linInput = <<>>
  /\ linEvals = 0
  /\ linFirst = <<>>

InitReach ==
  /\ walkEdges \in WalkEdgeLists(NodeIds)
  /\ walkRoot \in NodeIds
  /\ connectedNodes = <<>>
  /\ connectedIds = <<>>
  /\ walkStack = <<>>
  /\ walkPc = "build"
  /\ walkSteps = 0
  /\ LinIdle
  /\ StoreIdle
  /\ ExtIdle

NextReach ==
  \/ (WalkStart /\ UNCHANGED <<linVars, storeVars, extVars>>)
  \/ (WalkStep /\ UNCHANGED <<linVars, storeVars, extVars>>)
  \/ (WalkReturn /\ UNCHANGED <<linVars, storeVars, extVars>>)

SpecReach == InitReach /\ [][NextReach]_vars

\* ---- reachability as a relation on the edge set ----
RECURSIVE Closure(_, _, _)
Closure(edges, frontier, n) ==
  IF n = 0 THEN frontier
  ELSE Closure(edges,
               frontier \cup {e.toNodeId : e \in {x \in Range(edges) : x.fromNodeId \in frontier}},
               n - 1)

ReachableSet(edges, root) == Closure(edges, {root}, Len(edges))

NoDuplicates(seq) == \A i, j \in 1..Len(seq) : i # j => seq[i] # seq[j]

PermuteSeq(seq, p) == [i \in 1..Len(seq) |-> seq[p[i]]]

\* the permutations of 1..n for every length an edge list can have
EdgeOrders == [n \in 0..MaxWalkEdges |-> Perms(1..n)]

\* C5: the returned ids are exactly the ids reachable from the root along
\* fromNodeId -> toNodeId, the root included.
C5_ReachableExactly ==
  walkPc = "done" => Range(connectedIds) = ReachableSet(walkEdges, walkRoot)

C5_Witness ==
  /\ walkPc = "done"
  /\ Len(connectedIds) = MaxNodes
  /\ \E i \in 1..Len(walkEdges) : walkEdges[i].toNodeId = walkRoot

C5_WitnessRootOnly ==
  /\ walkPc = "done"
  /\ walkEdges # <<>>
  /\ connectedIds = <<walkRoot>>

\* C6: the walk terminates on every finite edge set: it takes at most one
\* step per edge plus one return per collected id, so it cannot run on; and
\* the result never holds an id twice.
C6_TerminatesWithoutDuplicates ==
  /\ NoDuplicates(connectedIds)
  /\ walkPc = "walk" => walkSteps <= Len(walkEdges) + Len(connectedIds)
  /\ walkPc = "walk" => (walkStack = <<>> \/ ENABLED WalkStep)

\* the cycle n1 -> n2 -> n3 -> n1 walked from n1
C6_Witness ==
  /\ walkPc = "done"
  /\ walkRoot = 1
  /\ walkEdges = <<[fromNodeId |-> 1, toNodeId |-> 2],
                   [fromNodeId |-> 2, toNodeId |-> 3],
                   [fromNodeId |-> 3, toNodeId |-> 1]>>
  /\ connectedIds = <<1, 2, 3>>

\* edge lists listed in ascending (fromNodeId, toNodeId) order: one
\* representative of every set of orderings of the same edges
EdgeRank(e) == e.fromNodeId * (MaxNodes + 1) + e.toNodeId

Ascending(edges) == \A i \in 1..(Len(edges) - 1) : EdgeRank(edges[i]) <= EdgeRank(edges[i + 1])

\* C7: the set of returned ids is the same for every iteration order of the
\* edges: every permutation of an edge list yields the set that the list's
\* ascending arrangement yields (every edge list is a permutation of one).
C7_EdgeOrderIndependent ==
  (walkPc = "done" /\ Ascending(walkEdges)) =>
    \A p \in EdgeOrders[Len(walkEdges)] :
      Range(getDependentComponents(PermuteSeq(walkEdges, p), walkRoot)) = Range(connectedIds)

\* a walk whose result list (not its set) does depend on the edge order
C7_Witness ==
  /\ walkPc = "done"
  /\ Ascending(walkEdges)
  /\ \E p \in EdgeOrders[Len(walkEdges)] :
       getDependentComponents(PermuteSeq(walkEdges, p), walkRoot) # connectedIds

\* ------------------------------------------------------------------------
\* Components store: optimistic mutations and full refresh
\* ------------------------------------------------------------------------
MaxComps == 2
MaxEdges == 0
MaxCreates == 1
MaxTemp == 1
MaxConnections == 1
MaxInflight == 2
MaxFetches == 1

ComponentIds == 1..MaxComps

\* Edge keys: a positive key k is the server's edge id k; a negative key -t is
\* the provisional id `temp-edge-${t}` made from the clock reading t.
TempKey(t) == 0 - t

ChangeStatuses == {"added", "modified", "deleted", "unmodified"}

\* ActorAndTimestamp values: none (the field is absent), the one the server
\* delivered, or { timestamp: now, actor: "You" } written optimistically.
NoInfo == "none"
ServerInfo == "server"
YouNow == "you"

\* The endpoints the caller passes to CREATE_COMPONENT_CONNECTION: the c-th
\* choice connects socket 1 of node c to socket 2 of node c + 1.
ConnectionEnds(c) ==
  [fromNodeId |-> c, fromSocketId |-> 1, toNodeId |-> c + 1, toSocketId |-> 2]

NoEnds == [fromNodeId |-> 0, fromSocketId |-> 0, toNodeId |-> 0, toSocketId |-> 0]

EndsOf(edge) ==
  [fromNodeId |-> edge.fromNodeId, fromSocketId |-> edge.fromSocketId,
   toNodeId |-> edge.toNodeId, toSocketId |-> edge.toSocketId]

NewEdge(id, ends, changeStatus, createdInfo, deletedInfo) ==
  [id |-> id,
   fromNodeId |-> ends.fromNodeId, fromSocketId |-> ends.fromSocketId,
   toNodeId |-> ends.toNodeId, toSocketId |-> ends.toSocketId,
   changeStatus |-> changeStatus, createdInfo |-> createdInfo, deletedInfo |-> deletedInfo]

\* ---- maps (JavaScript objects used as records) ----
Has(map, key) == key \in DOMAIN map

Put(map, key, value) == [k \in DOMAIN map \cup {key} |-> IF k = key THEN value ELSE map[k]]

Delete(map, key) == [k \in DOMAIN map \ {key} |-> map[k]]

\* the edge map by value: key -> fields of the object stored under it
EdgeView == [k \in DOMAIN edgesById |-> objs[edgesById[k]]]

\* ---- requests in flight ----
Slots == 1..MaxInflight

NoSnapshot == [components |-> <<>>, edges |-> <<>>]

Snapshot == [components |-> rawComponentsById, edges |-> EdgeView]

\* op: the action; key: its edgeId / componentId / tempId; branch, origObj,
\* origStatus: what the rollback closure captured; ends, serverId: the
\* connection asked for and the id the server gives it; refreshed, clean, pre:
\* whether a refresh / any other handler ran since the optimistic step, and
\* the maps as they were just before it.
IdleRequest ==
  [op |-> "idle", key |-> 0, branch |-> "", origObj |-> 0, origStatus |-> "",
   ends |-> NoEnds, serverId |-> 0, refreshed |-> FALSE, clean |-> FALSE, pre |-> NoSnapshot]

NewRequest(op, key) ==
  [IdleRequest EXCEPT !.op = op, !.key = key, !.clean = TRUE, !.pre = Snapshot]

FreeSlot == CHOOSE s \in Slots : requests[s].op = "idle" /\ \A u \in 1..(s - 1) : requests[u].op # "idle"

HasFreeSlot == \E s \in Slots : requests[s].op = "idle"

\* Another handler has run: the other requests in flight are no longer the
\* only thing that happened since their optimistic step.
Touched(reqs, except) ==
  [s \in Slots |->
     IF s = except \/ reqs[s].op = "idle" THEN reqs[s]
     ELSE [reqs[s] EXCEPT !.clean = FALSE, !.pre = NoSnapshot]]

Refreshed(reqs) ==
  [s \in Slots |->
     IF reqs[s].op = "idle" THEN reqs[s] ELSE [reqs[s] EXCEPT !.refreshed = TRUE]]

\* ---- object identity ----
\* Edge objects are named by the first place that refers to them: the edge
\* keys in ascending order, then the request slots.  Objects nothing refers
\* to are dropped.
RefSeq(map, reqs) ==
  LET ks == AscendingSeq(DOMAIN map)
  IN [i \in 1..Len(ks) |-> map[ks[i]]] \o [s \in Slots |-> reqs[s].origObj]

NameOf(refs, obj) ==
  IF obj = 0 THEN 0
  ELSE CHOOSE i \in 1..Len(refs) : refs[i] = obj /\ \A j \in 1..(i - 1) : refs[j] # obj

\* The edge map, the objects and the requests of the next state.
StoreEdges(map, heap, reqs) ==
  LET refs == RefSeq(map, reqs)
      live == Range(refs) \ {0}
  IN /\ edgesById' = [k \in DOMAIN map |-> NameOf(refs, map[k])]
     /\ objs' = [n \in {NameOf(refs, o) : o \in live} |->
                   heap[CHOOSE o \in live : NameOf(refs, o) = n]]
     /\ requests' = [s \in Slots |-> [reqs[s] EXCEPT !.origObj = NameOf(refs, reqs[s].origObj)]]

\* a name no live object has
FreshObj == 0 - 1

\* ---- FETCH_DIAGRAM_DATA ----
\* What the server can answer: any components, and any of the edges whose ids
\* it has assigned, each with the endpoints it was created with; an entity
\* carries deletedInfo exactly when its changeStatus is "deleted".
ServerInfoFor(changeStatus) == IF changeStatus = "deleted" THEN ServerInfo ELSE NoInfo

ResponseComponents ==
  UNION { { [i \in 1..Cardinality(ids) |->
               [id |-> AscendingSeq(ids)[i], changeStatus |-> st[AscendingSeq(ids)[i]],
                deletedInfo |-> ServerInfoFor(st[AscendingSeq(ids)[i]])]]
            : st \in [ids -> ChangeStatuses] }
          : ids \in SUBSET srvComps }

ResponseEdges ==
  UNION { { [i \in 1..Cardinality(ids) |->
               NewEdge(AscendingSeq(ids)[i], srvEnds[AscendingSeq(ids)[i]],
                       st[AscendingSeq(ids)[i]], ServerInfo,
                       ServerInfoFor(st[AscendingSeq(ids)[i]]))]
            : st \in [ids -> ChangeStatuses] }
          : ids \in SUBSET (DOMAIN srvEnds) }

\* _.keyBy(collection, "id"): the last element with an id is the one kept
keyBy(collection) ==
  [k \in {collection[i].id : i \in 1..Len(collection)} |->
     collection[CHOOSE i \in 1..Len(collection) :
                  /\ collection[i].id = k
                  /\ \A j \in (i + 1)..Len(collection) : collection[j].id # k]]

Assign_merge(old, new) ==
  [k \in DOMAIN old \cup DOMAIN new |-> IF k \in DOMAIN new THEN new[k] ELSE old[k]]

\* this.rawComponentsById = ...; this.edgesById = ...: the old map is dropped
Assign(old, new) == new

\* _.keyBy(response.edges, "id"): every edge of the response is a new object.
KeyByIdHeap(edges) == [o \in {0 - k : k \in DOMAIN edges} |-> edges[0 - o]]

KeyByIdMap(edges) == [k \in DOMAIN edges |-> 0 - k]

\* new ApiRequest({ url: "diagram/get_diagram", ... }): one more request in flight
GetDiagram(limit) ==
  /\ pendingFetches < limit
  /\ pendingFetches' = pendingFetches + 1

FETCH_DIAGRAM_DATA ==
  /\ GetDiagram(MaxFetches)
  /\ UNCHANGED <<rawComponentsById, edgesById, objs, selectedEdgeId, requests, nextEdgeId,
                 srvEnds, srvComps>>
  /\ threw' = FALSE

\* onSuccess of FETCH_DIAGRAM_DATA, for one response
FetchDiagramDataSuccessWith(components, edges) ==
  /\ pendingFetches > 0
  /\ pendingFetches' = pendingFetches - 1
  /\ rawComponentsById' = Assign(rawComponentsById, keyBy(components))
  /\ LET byId == keyBy(edges)
         old == [o \in DOMAIN objs |-> objs[o]]
         heap == [o \in DOMAIN old \cup DOMAIN KeyByIdHeap(byId) |->
                    IF o \in DOMAIN old THEN old[o] ELSE KeyByIdHeap(byId)[o]]
     IN StoreEdges(Assign(edgesById, KeyByIdMap(byId)), heap, Refreshed(Touched(requests, 0)))
  /\ UNCHANGED <<selectedEdgeId, nextEdgeId, srvEnds, srvComps>>
  /\ threw' = FALSE

FetchDiagramDataSuccess ==
  \E components \in ResponseComponents, edges \in ResponseEdges :
    FetchDiagramDataSuccessWith(components, edges)

FetchDiagramDataFail ==
  /\ pendingFetches > 0
  /\ pendingFetches' = pendingFetches - 1
  /\ UNCHANGED <<rawComponentsById, edgesById, objs, selectedEdgeId, requests, nextEdgeId,
                 srvEnds, srvComps>>
  /\ threw' = FALSE

\* what every user or server event leaves alone unless it says otherwise
Finish(slot, reqs) == [Touched(reqs, slot) EXCEPT ![slot] = IdleRequest]

\* ---- CREATE_COMPONENT_CONNECTION ----
\* optimistic: this.edgesById[tempId] = { id: tempId, ..., changeStatus: "added" }
CREATE_COMPONENT_CONNECTION(t, c) ==
  /\ HasFreeSlot
  /\ nextEdgeId <= MaxEdges + MaxCreates
  /\ LET tempId == TempKey(t)
         edge == NewEdge(tempId, ConnectionEnds(c), "added", YouNow, NoInfo)
         req == [NewRequest("CREATE_COMPONENT_CONNECTION", tempId) EXCEPT
                   !.ends = ConnectionEnds(c), !.serverId = nextEdgeId]
     IN StoreEdges(Put(edgesById, tempId, FreshObj), Put(objs, FreshObj, edge),
                   [Touched(requests, 0) EXCEPT ![FreeSlot] = req])
  /\ srvEnds' = Put(srvEnds, nextEdgeId, ConnectionEnds(c))
  /\ nextEdgeId' = nextEdgeId + 1
  /\ UNCHANGED <<rawComponentsById, selectedEdgeId, pendingFetches, srvComps>>
  /\ threw' = FALSE

\* onSuccess: if (this.edgesById[tempId]) { this.edgesById[response.connection.id] =
\* this.edgesById[tempId]; delete this.edgesById[tempId]; }
RenameEdge_keepTemp(map, tempId, serverId) ==
  IF Has(map, tempId) THEN Put(map, serverId, map[tempId]) ELSE map

RenameEdge(map, tempId, serverId) ==
  IF Has(map, tempId) THEN Delete(Put(map, serverId, map[tempId]), tempId) ELSE map

CreateConnectionSuccess(slot) ==
  /\ requests[slot].op = "CREATE_COMPONENT_CONNECTION"
  /\ StoreEdges(RenameEdge(edgesById, requests[slot].key, requests[slot].serverId), objs,
                Finish(slot, requests))
  /\ UNCHANGED <<rawComponentsById, selectedEdgeId, pendingFetches, nextEdgeId, srvEnds, srvComps>>
  /\ threw' = FALSE

\* rollback: delete this.edgesById[tempId]
CreateConnectionFail(slot) ==
  /\ requests[slot].op = "CREATE_COMPONENT_CONNECTION"
  /\ StoreEdges(Delete(edgesById, requests[slot].key), objs, Finish(slot, requests))
  /\ UNCHANGED <<rawComponentsById, selectedEdgeId, pendingFetches, nextEdgeId, srvEnds, srvComps>>
  /\ threw' = FALSE

\* ---- DELETE_EDGE ----
\* changeStatus = "deleted"; deletedInfo = { timestamp: now, actor: You }
Tombstone_noInfo(entity) == [entity EXCEPT !.changeStatus = "deleted"]

Tombstone(entity) == [entity EXCEPT !.changeStatus = "deleted", !.deletedInfo = YouNow]

\* the edge is called with an id the diagram shows, i.e. a key of the map
DELETE_EDGE(edgeId) ==
  /\ HasFreeSlot
  /\ Has(edgesById, edgeId)
  /\ LET originalEdge == edgesById[edgeId]
     IN IF objs[originalEdge].changeStatus = "added"
        THEN /\ StoreEdges(Delete(edgesById, edgeId), objs,
                   [Touched(requests, 0) EXCEPT ![FreeSlot] =
                      [NewRequest("DELETE_EDGE", edgeId) EXCEPT
                         !.branch = "added", !.origObj = originalEdge]])
             /\ selectedEdgeId' = 0
        ELSE /\ StoreEdges(edgesById,
                   [objs EXCEPT ![originalEdge] = Tombstone(objs[originalEdge])],
                   [Touched(requests, 0) EXCEPT ![FreeSlot] =
                      [NewRequest("DELETE_EDGE", edgeId) EXCEPT
                         !.branch = "tombstone",
                         !.origStatus = objs[originalEdge].changeStatus]])
             /\ UNCHANGED selectedEdgeId
  /\ UNCHANGED <<rawComponentsById, pendingFetches, nextEdgeId, srvEnds, srvComps>>
  /\ threw' = FALSE

\* onSuccess of DELETE_EDGE, RESTORE_EDGE, DELETE_COMPONENT: nothing but a comment
DeleteEdgeSuccess(slot) ==
  /\ requests[slot].op = "DELETE_EDGE"
  /\ StoreEdges(edgesById, objs, [requests EXCEPT ![slot] = IdleRequest])
  /\ UNCHANGED <<rawComponentsById, selectedEdgeId, pendingFetches, nextEdgeId, srvEnds, srvComps>>
  /\ threw' = FALSE

\* rollback of DELETE_EDGE.  In the second branch
\* this.edgesById[edgeId].changeStatus = originalStatus throws a TypeError
\* when the map has no such edge any more.
DeleteEdgeFail(slot) ==
  /\ requests[slot].op = "DELETE_EDGE"
  /\ LET r == requests[slot]
         edgeId == r.key
     IN IF r.branch = "added"
        THEN /\ StoreEdges(Put(edgesById, edgeId, r.origObj), objs, Finish(slot, requests))
             /\ selectedEdgeId' = edgeId
             /\ threw' = FALSE
        ELSE IF ~Has(edgesById, edgeId)
        THEN /\ StoreEdges(edgesById, objs, Finish(slot, requests))
             /\ threw' = TRUE
             /\ UNCHANGED selectedEdgeId
        ELSE /\ StoreEdges(edgesById,
                   [objs EXCEPT ![edgesById[edgeId]] =
                      [@ EXCEPT !.changeStatus = r.origStatus, !.deletedInfo = NoInfo]],
                   Finish(slot, requests))
             /\ selectedEdgeId' = edgeId
             /\ threw' = FALSE
  /\ UNCHANGED <<rawComponentsById, pendingFetches, nextEdgeId, srvEnds, srvComps>>

\* ---- RESTORE_EDGE ----
\* delete this.edgesById[edgeId]?.deletedInfo; changeStatus = "unmodified"
Restored_modified(entity) == [entity EXCEPT !.changeStatus = "modified", !.deletedInfo = NoInfo]

Restored(entity) == [entity EXCEPT !.changeStatus = "unmodified", !.deletedInfo = NoInfo]

\* originalEdge = this.edgesById[edgeId] is the stored object itself, not a copy
RESTORE_EDGE(edgeId) ==
  /\ HasFreeSlot
  /\ Has(edgesById, edgeId)
  /\ LET originalEdge == edgesById[edgeId]
     IN StoreEdges(edgesById,
                   [objs EXCEPT ![originalEdge] = Restored(objs[originalEdge])],
                   [Touched(requests, 0) EXCEPT ![FreeSlot] =
                      [NewRequest("RESTORE_EDGE", edgeId) EXCEPT !.origObj = originalEdge]])
  /\ UNCHANGED <<rawComponentsById, selectedEdgeId, pendingFetches, nextEdgeId, srvEnds, srvComps>>
  /\ threw' = FALSE

RestoreEdgeSuccess(slot) ==
  /\ requests[slot].op = "RESTORE_EDGE"
  /\ StoreEdges(edgesById, objs, [requests EXCEPT ![slot] = IdleRequest])
  /\ UNCHANGED <<rawComponentsById, selectedEdgeId, pendingFetches, nextEdgeId, srvEnds, srvComps>>
  /\ threw' = FALSE

\* rollback: this.edgesById[edgeId] = originalEdge; this.selectedEdgeId = edgeId
RestoreEdgeFail(slot) ==
  /\ requests[slot].op = "RESTORE_EDGE"
  /\ StoreEdges(Put(edgesById, requests[slot].key, requests[slot].origObj), objs,
                Finish(slot, requests))
  /\ selectedEdgeId' = requests[slot].key
  /\ UNCHANGED <<rawComponentsById, pendingFetches, nextEdgeId, srvEnds, srvComps>>
  /\ threw' = FALSE

\* ---- DELETE_COMPONENT ----
DELETE_COMPONENT(componentId) ==
  /\ HasFreeSlot
  /\ Has(rawComponentsById, componentId)
  /\ rawComponentsById' =
       [rawComponentsById EXCEPT ![componentId] = Tombstone(rawComponentsById[componentId])]
  /\ StoreEdges(edgesById, objs,
                [Touched(requests, 0) EXCEPT ![FreeSlot] =
                   [NewRequest("DELETE_COMPONENT", componentId) EXCEPT
                      !.origStatus = rawComponentsById[componentId].changeStatus]])
  /\ UNCHANGED <<selectedEdgeId, pendingFetches, nextEdgeId, srvEnds, srvComps>>
  /\ threw' = FALSE

DeleteComponentSuccess(slot) ==
  /\ requests[slot].op = "DELETE_COMPONENT"
  /\ StoreEdges(edgesById, objs, [requests EXCEPT ![slot] = IdleRequest])
  /\ UNCHANGED <<rawComponentsById, selectedEdgeId, pendingFetches, nextEdgeId, srvEnds, srvComps>>
  /\ threw' = FALSE

\* rollback: this.rawComponentsById[componentId].changeStatus = originalStatus;
\* delete this.rawComponentsById[componentId].deletedInfo.  The first
\* statement throws a TypeError when the component is no longer in the map.
DeleteComponentFail(slot) ==
  /\ requests[slot].op = "DELETE_COMPONENT"
  /\ LET r == requests[slot]
     IN IF ~Has(rawComponentsById, r.key)
        THEN /\ threw' = TRUE
             /\ UNCHANGED rawComponentsById
        ELSE /\ rawComponentsById' =
                  [rawComponentsById EXCEPT ![r.key] =
                     [@ EXCEPT !.changeStatus = r.origStatus, !.deletedInfo = NoInfo]]
             /\ threw' = FALSE
  /\ StoreEdges(edgesById, objs, Finish(slot, requests))
  /\ UNCHANGED <<selectedEdgeId, pendingFetches, nextEdgeId, srvEnds, srvComps>>

\* ---- the store ----
\* Component handlers read and write rawComponentsById only, edge handlers
\* edgesById and selectedEdgeId only; the refresh replaces both maps.  The
\* edge operations are checked on a diagram of edges (SpecEdges), the
\* component operations on a diagram of components (SpecComponents).
InitStore ==
  /\ StoreConstructed
  /\ requests = [s \in Slots |-> IdleRequest]
  /\ nextEdgeId = MaxEdges + 1
  /\ LinIdle
  /\ WalkIdle

InitEdges ==
  /\ InitStore
  /\ ExtIdle
  /\ srvEnds = [k \in 1..MaxEdges |-> ConnectionEnds(k)]
  /\ srvComps = {}

InitComponents ==
  /\ InitStore
  /\ ExtIdle
  /\ srvEnds = <<>>
  /\ srvComps = ComponentIds

EdgeKeys == {k \in (0 - MaxTemp)..(MaxEdges + MaxCreates) : k # 0}

NextEdges ==
  \/ FETCH_DIAGRAM_DATA /\ UNCHANGED <<linVars, walkVars, extVars>>
  \/ FetchDiagramDataSuccess /\ UNCHANGED <<linVars, walkVars, extVars>>
  \/ FetchDiagramDataFail /\ UNCHANGED <<linVars, walkVars, extVars>>
  \/ (\E t \in 1..MaxTemp, c \in 1..MaxConnections : CREATE_COMPONENT_CONNECTION(t, c))
       /\ UNCHANGED <<linVars, walkVars, extVars>>
  \/ (\E slot \in Slots : CreateConnectionSuccess(slot)) /\ UNCHANGED <<linVars, walkVars, extVars>>
  \/ (\E slot \in Slots : CreateConnectionFail(slot)) /\ UNCHANGED <<linVars, walkVars, extVars>>
  \/ (\E edgeId \in EdgeKeys : DELETE_EDGE(edgeId)) /\ UNCHANGED <<linVars, walkVars, extVars>>
  \/ (\E slot \in Slots : DeleteEdgeSuccess(slot)) /\ UNCHANGED <<linVars, walkVars, extVars>>
  \/ (\E slot \in Slots : DeleteEdgeFail(slot)) /\ UNCHANGED <<linVars, walkVars, extVars>>
  \/ (\E edgeId \in EdgeKeys : RESTORE_EDGE(edgeId)) /\ UNCHANGED <<linVars, walkVars, extVars>>
  \/ (\E slot \in Slots : RestoreEdgeSuccess(slot)) /\ UNCHANGED <<linVars, walkVars, extVars>>
  \/ (\E slot \in Slots : RestoreEdgeFail(slot)) /\ UNCHANGED <<linVars, walkVars, extVars>>

NextComponents ==
  \/ FETCH_DIAGRAM_DATA /\ UNCHANGED <<linVars, walkVars, extVars>>
  \/ FetchDiagramDataSuccess /\ UNCHANGED <<linVars, walkVars, extVars>>
  \/ FetchDiagramDataFail /\ UNCHANGED <<linVars, walkVars, extVars>>
  \/ (\E componentId \in ComponentIds : DELETE_COMPONENT(componentId))
       /\ UNCHANGED <<linVars, walkVars, extVars>>
  \/ (\E slot \in Slots : DeleteComponentSuccess(slot)) /\ UNCHANGED <<linVars, walkVars, extVars>>
  \/ (\E slot \in Slots : DeleteComponentFail(slot)) /\ UNCHANGED <<linVars, walkVars, extVars>>

SpecEdges == InitEdges /\ [][NextEdges]_vars

SpecComponents == InitComponents /\ [][NextComponents]_vars

\* ------------------------------------------------------------------------
\* Optimistic operations on the edge map
\* ------------------------------------------------------------------------
RollbackOf(slot) ==
  \/ CreateConnectionFail(slot)
  \/ DeleteEdgeFail(slot)
  \/ RestoreEdgeFail(slot)
  \/ DeleteComponentFail(slot)

\* C8: when the remote call of an optimistic operation (create connection,
\* delete edge, restore edge, delete component) fails and no other event was
\* handled since its optimistic step, the component map and the edge map after
\* the rollback equal their values immediately before the operation, whatever
\* the prior state of the targeted entity (deletedInfo included).
C8_RollbackRestoresMaps ==
  [][\A slot \in Slots :
       (requests[slot].clean /\ RollbackOf(slot))
         => /\ rawComponentsById' = requests[slot].pre.components
            /\ EdgeView' = requests[slot].pre.edges]_vars

C10_DeleteThenRestore ==
  [][\A edgeId \in EdgeKeys :
       /\ DELETE_EDGE(edgeId) =>
            IF objs[edgesById[edgeId]].changeStatus = "added"
            THEN ~Has(edgesById', edgeId)
            ELSE /\ Has(edgesById', edgeId)
                 /\ objs'[edgesById'[edgeId]].changeStatus = "deleted"
                 /\ objs'[edgesById'[edgeId]].deletedInfo = YouNow
       /\ RESTORE_EDGE(edgeId) =>
            /\ Has(edgesById', edgeId)
            /\ objs'[edgesById'[edgeId]].changeStatus = "unmodified"
            /\ objs'[edgesById'[edgeId]].deletedInfo = NoInfo]_vars

\* a RESTORE_EDGE has just acted on an edge that a DELETE_EDGE had tombstoned
C10_Witness ==
  \E slot \in Slots :
    /\ requests[slot].op = "RESTORE_EDGE"
    /\ requests[slot].clean
    /\ Has(requests[slot].pre.edges, requests[slot].key)
    /\ requests[slot].pre.edges[requests[slot].key].changeStatus = "deleted"
    /\ requests[slot].pre.edges[requests[slot].key].deletedInfo = YouNow
    /\ Has(edgesById, requests[slot].key)
    /\ objs[edgesById[requests[slot].key]].changeStatus = "unmodified"
    /\ objs[edgesById[requests[slot].key]].deletedInfo = NoInfo

\* C11: DELETE_COMPONENT on a component whose changeStatus is "added" removes
\* the component outright (no tombstone); on a component with any other
\* changeStatus it marks it "deleted" with actor and timestamp.
C11_DeleteComponentByStatus ==
  [][\A componentId \in ComponentIds :
       DELETE_COMPONENT(componentId) =>
         IF rawComponentsById[componentId].changeStatus = "added"
         THEN ~Has(rawComponentsById', componentId)
         ELSE /\ Has(rawComponentsById', componentId)
              /\ rawComponentsById'[componentId].changeStatus = "deleted"
              /\ rawComponentsById'[componentId].deletedInfo = YouNow]_vars

\* the rollback of an optimistic delete whose target a refresh has removed
StaleDeleteRollback(slot) ==
  /\ requests[slot].refreshed
  /\ \/ DeleteEdgeFail(slot) /\ ~Has(edgesById, requests[slot].key)
     \/ DeleteComponentFail(slot) /\ ~Has(rawComponentsById, requests[slot].key)

\* C12: if a full refresh replaces the store between an optimistic delete (of
\* an edge or a component) and the failure of its remote call, so that the
\* target is no longer present, the rollback raises no error and leaves the
\* refreshed maps as they are.
C12_StaleRollbackIsNoOp ==
  [][\A slot \in Slots :
       StaleDeleteRollback(slot)
         => /\ ~threw'
            /\ rawComponentsById' = rawComponentsById
            /\ EdgeView' = EdgeView]_vars

\* ------------------------------------------------------------------------
\* Keyed mutations: one remote call per request key
\* ------------------------------------------------------------------------
MaxKeyIds == 1
MaxIntents == 3

KeyIds == 1..MaxKeyIds

KeyedOps ==
  {"DELETE_EDGE", "RESTORE_EDGE", "DELETE_COMPONENT", "RESTORE_COMPONENT",
   "ADD_ACTION", "REMOVE_ACTION"}

\* The calls the stores can make: DELETE_EDGE(edgeId), RESTORE_EDGE(edgeId),
\* DELETE_COMPONENT(componentId), RESTORE_COMPONENT(componentId),
\* ADD_ACTION(componentId, actionPrototypeId), REMOVE_ACTION(id).  a is the
\* first argument, b the second (0 when there is none).
KeyedIntents ==
  {[op |-> op, a |-> a, b |-> 0] : op \in KeyedOps \ {"ADD_ACTION"}, a \in KeyIds}
    \cup {[op |-> "ADD_ACTION", a |-> a, b |-> b] : a \in KeyIds, b \in KeyIds}

keyRequestStatusBy_perAction(op, a, b) == <<op, a, b>>

\* keyRequestStatusBy: edgeId | componentId | [componentId, actionPrototypeId] | id.
\* Ids of different kinds are different strings; the first field says which
\* kind of id the key is.
keyRequestStatusBy(op, a, b) ==
  CASE op \in {"DELETE_EDGE", "RESTORE_EDGE"} -> <<"EdgeId", a, 0>>
    [] op \in {"DELETE_COMPONENT", "RESTORE_COMPONENT"} -> <<"ComponentId", a, 0>>
    [] op = "ADD_ACTION" -> <<"ComponentId,ActionPrototypeId", a, b>>
    [] OTHER -> <<"ActionId", a, 0>>

RemoteCall(intent) ==
  [op |-> intent.op, a |-> intent.a, b |-> intent.b,
   key |-> keyRequestStatusBy(intent.op, intent.a, intent.b)]

KeyInFlight(key) == \E i \in 1..Len(inFlight) : inFlight[i].key = key

RemoveAt(seq, i) == SubSeq(seq, 1, i - 1) \o SubSeq(seq, i + 1, Len(seq))

FirstWithKey(seq, key) ==
  CHOOSE i \in 1..Len(seq) : seq[i].key = key /\ \A j \in 1..(i - 1) : seq[j].key # key

\* perform(intent): the call is issued unless a call with the same key is in
\* flight; then the intent queues behind it.
Perform(intent) ==
  /\ Len(inFlight) + Len(keyQueue) < MaxIntents
  /\ LET call == RemoteCall(intent)
     IN IF KeyInFlight(call.key)
        THEN /\ keyQueue' = Append(keyQueue, call)
             /\ UNCHANGED inFlight
        ELSE /\ inFlight' = Append(inFlight, call)
             /\ UNCHANGED keyQueue

\* The call resolves (success or failure); the oldest intent queued behind it
\* is issued.
Resolve(i) ==
  /\ i \in 1..Len(inFlight)
  /\ LET key == inFlight[i].key
         rest == RemoveAt(inFlight, i)
     IN IF \E j \in 1..Len(keyQueue) : keyQueue[j].key = key
        THEN /\ inFlight' = Append(rest, keyQueue[FirstWithKey(keyQueue, key)])
             /\ keyQueue' = RemoveAt(keyQueue, FirstWithKey(keyQueue, key))
        ELSE /\ inFlight' = rest
             /\ UNCHANGED keyQueue

InitKeyed ==
  /\ KeyedIdle
  /\ LinIdle
  /\ WalkIdle
  /\ StoreIdle
  /\ BulkIdle /\ EventIdle /\ SyncIdle /\ JobIdle /\ WorkerIdle /\ ViewIdle /\ RestIdle

NextKeyed ==
  \/ (\E intent \in KeyedIntents : Perform(intent))
       /\ UNCHANGED <<linVars, walkVars, storeVars, bulkVars, eventVars, syncVars, jobVars,
                      workerVars, viewVars, restVars>>
  \/ (\E i \in 1..MaxIntents : Resolve(i))
       /\ UNCHANGED <<linVars, walkVars, storeVars, bulkVars, eventVars, syncVars, jobVars,
                      workerVars, viewVars, restVars>>

SpecKeyed == InitKeyed /\ [][NextKeyed]_vars

\* the entity a keyed mutation is about
EntityOf(call) ==
  CASE call.op \in {"DELETE_EDGE", "RESTORE_EDGE"} -> <<"edge", call.a, 0>>
    [] call.op \in {"DELETE_COMPONENT", "RESTORE_COMPONENT"} -> <<"component", call.a, 0>>
    [] call.op = "ADD_ACTION" -> <<"action of component", call.a, call.b>>
    [] OTHER -> <<"action", call.a, 0>>

\* C13: for the keyed mutations (DELETE_EDGE and RESTORE_EDGE by edge id,
\* DELETE_COMPONENT and RESTORE_COMPONENT by component id, ADD_ACTION and
\* REMOVE_ACTION by their keys) at most one remote call per key is in flight
\* at every moment.
C13_OneCallPerKey ==
  \A i, j \in 1..Len(inFlight) :
    EntityOf(inFlight[i]) = EntityOf(inFlight[j]) => i = j

\* a second intent for an edge waits behind the call in flight for that edge,
\* while a call for another key is in flight too
C13_Witness ==
  /\ \E i \in 1..Len(inFlight), j \in 1..Len(keyQueue) :
       /\ inFlight[i].op = "DELETE_EDGE"
       /\ keyQueue[j].op = "RESTORE_EDGE"
       /\ inFlight[i].a = keyQueue[j].a
  /\ Len(inFlight) > 1

\* ------------------------------------------------------------------------
\* Bulk operations: DELETE_COMPONENTS, RESTORE_COMPONENTS
\* ------------------------------------------------------------------------
MaxBulk == 2

\* RESTORE_COMPONENT has no optimistic step: it only makes the remote call.
RESTORE_COMPONENT(componentId) ==
  /\ HasFreeSlot
  /\ StoreEdges(edgesById, objs,
                [requests EXCEPT ![FreeSlot] = NewRequest("RESTORE_COMPONENT", componentId)])
  /\ UNCHANGED <<rawComponentsById, selectedEdgeId, pendingFetches, nextEdgeId, srvEnds, srvComps>>
  /\ threw' = FALSE

\* its call succeeds (onSuccess holds only a comment) or fails (no rollback)
RestoreComponentResolved(slot) ==
  /\ requests[slot].op = "RESTORE_COMPONENT"
  /\ StoreEdges(edgesById, objs, [requests EXCEPT ![slot] = IdleRequest])
  /\ UNCHANGED <<rawComponentsById, selectedEdgeId, pendingFetches, nextEdgeId, srvEnds, srvComps>>
  /\ threw' = FALSE

\* The promise an action returns settles when its remote call has resolved.
ActionSettled(request) == request.op = "idle"

SeriesAwaits_nothing(reqs) == TRUE

\* async.eachSeries(componentIds, async (componentId) => { await this.X(componentId) }):
\* the iteratee is called for the next element once the awaited call of the
\* previous element has settled.
SeriesAwaits(reqs) == \A slot \in Slots : ActionSettled(reqs[slot])

DELETE_COMPONENTS(componentIds) ==
  /\ bulkPc = "idle"
  /\ bulkOp' = "DELETE_COMPONENTS"
  /\ bulkIds' = componentIds
  /\ bulkLog' = <<>>
  /\ bulkPc' = "series"
  /\ UNCHANGED storeVars

RESTORE_COMPONENTS(componentIds) ==
  /\ bulkPc = "idle"
  /\ bulkOp' = "RESTORE_COMPONENTS"
  /\ bulkIds' = componentIds
  /\ bulkLog' = <<>>
  /\ bulkPc' = "series"
  /\ UNCHANGED storeVars

\* one call of the iteratee
SeriesIteratee ==
  /\ bulkPc = "series"
  /\ Len(bulkLog) < Len(bulkIds)
  /\ SeriesAwaits(requests)
  /\ LET componentId == bulkIds[Len(bulkLog) + 1]
     IN /\ IF bulkOp = "DELETE_COMPONENTS"
           THEN DELETE_COMPONENT(componentId)
           ELSE RESTORE_COMPONENT(componentId)
        /\ bulkLog' = Append(bulkLog, componentId)
  /\ UNCHANGED <<bulkOp, bulkIds, bulkPc>>

\* the series has gone through the list: the bulk action returns
SeriesReturn ==
  /\ bulkPc = "series"
  /\ Len(bulkLog) = Len(bulkIds)
  /\ SeriesAwaits(requests)
  /\ bulkPc' = "done"
  /\ UNCHANGED <<bulkOp, bulkIds, bulkLog, storeVars>>

\* a diagram as a refresh delivers it, with every component present
LoadedComponents ==
  { [c \in ComponentIds |->
       [id |-> c, changeStatus |-> st[c], deletedInfo |-> ServerInfoFor(st[c])]]
    : st \in [ComponentIds -> ChangeStatuses] }

InitBulk ==
  /\ rawComponentsById \in LoadedComponents
  /\ edgesById = <<>>
  /\ objs = <<>>
  /\ selectedEdgeId = 0
  /\ pendingFetches = 0
  /\ threw = FALSE
  /\ requests = [s \in Slots |-> IdleRequest]
  /\ nextEdgeId = MaxEdges + 1
  /\ srvEnds = <<>>
  /\ srvComps = ComponentIds
  /\ bulkOp = ""
  /\ bulkIds = <<>>
  /\ bulkLog = <<>>
  /\ bulkPc = "idle"
  /\ LinIdle /\ WalkIdle /\ KeyedIdle /\ EventIdle /\ SyncIdle /\ JobIdle /\ WorkerIdle /\ ViewIdle /\ RestIdle

exceptBulk == <<linVars, walkVars, keyedVars, eventVars, syncVars, jobVars, workerVars, viewVars, restVars>>

NextBulk ==
  \/ (\E componentIds \in SeqsUpTo(ComponentIds, MaxBulk) : DELETE_COMPONENTS(componentIds))
       /\ UNCHANGED exceptBulk
  \/ (\E componentIds \in SeqsUpTo(ComponentIds, MaxBulk) : RESTORE_COMPONENTS(componentIds))
       /\ UNCHANGED exceptBulk
  \/ SeriesIteratee /\ UNCHANGED exceptBulk
  \/ SeriesReturn /\ UNCHANGED exceptBulk
  \/ (\E slot \in Slots : DeleteComponentSuccess(slot)) /\ UNCHANGED <<bulkVars, exceptBulk>>
  \/ (\E slot \in Slots : DeleteComponentFail(slot)) /\ UNCHANGED <<bulkVars, exceptBulk>>
  \/ (\E slot \in Slots : RestoreComponentResolved(slot)) /\ UNCHANGED <<bulkVars, exceptBulk>>

SpecBulk == InitBulk /\ [][NextBulk]_vars

Outstanding == {slot \in Slots : requests[slot].op # "idle"}

\* C14: DELETE_COMPONENTS and RESTORE_COMPONENTS issue their remote calls in
\* list order with at most one call outstanding at any time: every call
\* started so far but the last has resolved.
C14_OneCallAtATimeInListOrder ==
  /\ Cardinality(Outstanding) <= 1
  /\ Len(bulkLog) <= Len(bulkIds)
  /\ bulkLog = SubSeq(bulkIds, 1, Len(bulkLog))
  /\ \A slot \in Outstanding :
       Len(bulkLog) > 0 /\ requests[slot].key = bulkLog[Len(bulkLog)]

\* the call for the second element of a list is in flight, the first resolved
C14_Witness ==
  /\ bulkPc = "series"
  /\ Len(bulkIds) = 2
  /\ bulkIds[1] # bulkIds[2]
  /\ Len(bulkLog) = 2
  /\ \E slot \in Slots : Outstanding = {slot} /\ requests[slot].key = bulkIds[2]

\* ------------------------------------------------------------------------
\* Activation and realtime events
\* ------------------------------------------------------------------------
MaxChangeSets == 2
MaxCodeFetches == 2

ChangeSetIds == 1..MaxChangeSets

\* this.$id: the one components store of the change-set
StoreId == 1

NoEvent == [eventType |-> "", payload |-> 0]

\* realtimeStore.subscribe(this.$id, `changeset/${changeSetId}`, [...])
subscribe(subs, id, topic) == Put(subs, id, topic)

\* realtimeStore.unsubscribe(this.$id)
unsubscribe(subs, id) == Delete(subs, id)

Cleanup_nothing(subs) == subs

\* return () => { realtimeStore.unsubscribe(this.$id); }
Cleanup(subs) == unsubscribe(subs, StoreId)

\* the realtime store calls the callbacks of its subscribers only
Subscribed == Has(subscriptions, StoreId)

\* onActivated: if (!changeSetId) return; FETCH_DIAGRAM_DATA(); subscribe(...)
onActivated ==
  /\ ~activated
  /\ activated' = TRUE
  /\ IF changeSetId = 0
     THEN UNCHANGED <<storeVars, subscriptions>>
     ELSE /\ FETCH_DIAGRAM_DATA
          /\ subscriptions' = subscribe(subscriptions, StoreId, changeSetId)
  /\ UNCHANGED <<changeSetId, codeFetches, lastEvent>>

\* the function onActivated returned (none when it returned early)
onDeactivated ==
  /\ activated
  /\ activated' = FALSE
  /\ subscriptions' = IF changeSetId = 0 THEN subscriptions ELSE Cleanup(subscriptions)
  /\ UNCHANGED <<changeSetId, codeFetches, lastEvent, storeVars>>

\* eventType: "ComponentCreated"
ComponentCreated ==
  /\ Subscribed
  /\ FETCH_DIAGRAM_DATA
  /\ lastEvent' = [eventType |-> "ComponentCreated", payload |-> 0]
  /\ UNCHANGED <<changeSetId, activated, subscriptions, codeFetches>>

NamesOwnChangeSet_always(writtenChangeSetId) == TRUE

\* if (writtenChangeSetId !== changeSetId) return
NamesOwnChangeSet(writtenChangeSetId) == writtenChangeSetId = changeSetId

\* eventType: "ChangeSetWritten"
ChangeSetWritten(writtenChangeSetId) ==
  /\ Subscribed
  /\ IF NamesOwnChangeSet(writtenChangeSetId) THEN FETCH_DIAGRAM_DATA ELSE UNCHANGED storeVars
  /\ lastEvent' = [eventType |-> "ChangeSetWritten", payload |-> writtenChangeSetId]
  /\ UNCHANGED <<changeSetId, activated, subscriptions, codeFetches>>

\* eventType: "CodeGenerated": FETCH_COMPONENT_CODE(codeGeneratedEvent.componentId)
CodeGenerated(componentId) ==
  /\ Subscribed
  /\ Len(codeFetches) < MaxCodeFetches
  /\ codeFetches' = Append(codeFetches, componentId)
  /\ lastEvent' = [eventType |-> "CodeGenerated", payload |-> componentId]
  /\ UNCHANGED <<changeSetId, activated, subscriptions, storeVars>>

\* the diagram the refreshes deliver has one component, in any change status
InitEvents ==
  /\ InitStore
  /\ srvEnds = <<>>
  /\ srvComps = {1}
  /\ changeSetId \in 0..MaxChangeSets
  /\ activated = FALSE
  /\ subscriptions = <<>>
  /\ codeFetches = <<>>
  /\ lastEvent = NoEvent
  /\ KeyedIdle /\ BulkIdle /\ SyncIdle /\ JobIdle /\ WorkerIdle /\ ViewIdle /\ RestIdle

exceptEvents == <<linVars, walkVars, keyedVars, bulkVars, syncVars, jobVars, workerVars, viewVars, restVars>>

NextEvents ==
  \/ onActivated /\ UNCHANGED exceptEvents
  \/ onDeactivated /\ UNCHANGED exceptEvents
  \/ ComponentCreated /\ UNCHANGED exceptEvents
  \/ (\E writtenChangeSetId \in ChangeSetIds : ChangeSetWritten(writtenChangeSetId))
       /\ UNCHANGED exceptEvents
  \/ (\E componentId \in ComponentIds : CodeGenerated(componentId)) /\ UNCHANGED exceptEvents
  \/ FetchDiagramDataSuccess /\ UNCHANGED <<eventVars, exceptEvents>>
  \/ FetchDiagramDataFail /\ UNCHANGED <<eventVars, exceptEvents>>

SpecEvents == InitEvents /\ [][NextEvents]_vars

\* C15: a ChangeSetWritten event triggers a full refresh of the component
\* store if and only if its payload names the store's own change-set; for any
\* other change-set id it issues no fetch and leaves the store unchanged; a
\* ComponentCreated event always triggers a full refresh.
C15_RefreshOnEvents ==
  [][/\ \A writtenChangeSetId \in ChangeSetIds :
          ChangeSetWritten(writtenChangeSetId) =>
            IF writtenChangeSetId = changeSetId
            THEN pendingFetches' = pendingFetches + 1
            ELSE /\ pendingFetches' = pendingFetches
                 /\ rawComponentsById' = rawComponentsById
                 /\ EdgeView' = EdgeView
     /\ ComponentCreated => pendingFetches' = pendingFetches + 1]_vars

\* the callback of a ChangeSetWritten event naming another change-set has run
\* and no fetch is in flight
C15_Witness ==
  /\ lastEvent.eventType = "ChangeSetWritten"
  /\ lastEvent.payload # changeSetId
  /\ Subscribed
  /\ pendingFetches = 0

HandlerRuns ==
  \/ ComponentCreated
  \/ \E writtenChangeSetId \in ChangeSetIds : ChangeSetWritten(writtenChangeSetId)
  \/ \E componentId \in ComponentIds : CodeGenerated(componentId)

\* C18: when a component store that subscribed on activation is deactivated,
\* its subscription is removed, and no ComponentCreated, ChangeSetWritten or
\* CodeGenerated handler of that store runs after the deactivation.
C18_NoHandlerAfterDeactivation ==
  [][/\ onDeactivated => ~Has(subscriptions', StoreId)
     /\ HandlerRuns => activated]_vars

\* a store that subscribed and handled an event has been deactivated
C18_Witness ==
  /\ ~activated
  /\ changeSetId # 0
  /\ lastEvent # NoEvent
  /\ ~Subscribed

\* ------------------------------------------------------------------------
\* Full refresh of a diagram with components and provisional edges
\* ------------------------------------------------------------------------
InitDiagram ==
  /\ InitStore
  /\ srvEnds = <<>>
  /\ srvComps = ComponentIds
  /\ ExtIdle

NextDiagram ==
  \/ FETCH_DIAGRAM_DATA /\ UNCHANGED <<linVars, walkVars, extVars>>
  \/ FetchDiagramDataSuccess /\ UNCHANGED <<linVars, walkVars, extVars>>
  \/ FetchDiagramDataFail /\ UNCHANGED <<linVars, walkVars, extVars>>
  \/ (\E t \in 1..MaxTemp, c \in 1..MaxConnections : CREATE_COMPONENT_CONNECTION(t, c))
       /\ UNCHANGED <<linVars, walkVars, extVars>>
  \/ (\E slot \in Slots : CreateConnectionSuccess(slot)) /\ UNCHANGED <<linVars, walkVars, extVars>>
  \/ (\E slot \in Slots : CreateConnectionFail(slot)) /\ UNCHANGED <<linVars, walkVars, extVars>>

SpecDiagram == InitDiagram /\ [][NextDiagram]_vars

IdsIn(collection) == {collection[i].id : i \in 1..Len(collection)}

\* C16: a successful full refresh makes the component map and the edge map
\* exactly the response's entities keyed by id, dropping every entry absent
\* from the response (provisional edges included); the maps it leaves are
\* those the same response gives when it is applied again.
C16_RefreshReplacesMaps ==
  [][\A components \in ResponseComponents, edges \in ResponseEdges :
       FetchDiagramDataSuccessWith(components, edges)
         => /\ DOMAIN rawComponentsById' = IdsIn(components)
            /\ \A i \in 1..Len(components) :
                 rawComponentsById'[components[i].id] = components[i]
            /\ DOMAIN EdgeView' = IdsIn(edges)
            /\ \A i \in 1..Len(edges) : EdgeView'[edges[i].id] = edges[i]
            /\ \A k \in DOMAIN EdgeView : k < 0 => k \notin DOMAIN EdgeView'
            /\ rawComponentsById' = keyBy(components)
            /\ EdgeView' = keyBy(edges)]_vars

\* a refresh has arrived while a connection was being created: the components
\* are loaded and the provisional edge is gone
C16_Witness ==
  \E slot \in Slots :
    /\ requests[slot].op = "CREATE_COMPONENT_CONNECTION"
    /\ requests[slot].refreshed
    /\ ~Has(edgesById, requests[slot].key)
    /\ DOMAIN rawComponentsById = ComponentIds
    /\ DOMAIN edgesById # {}

\* ------------------------------------------------------------------------
\* The client's maps and the server's state
\* ------------------------------------------------------------------------
MaxSrvChanges == 2
MaxSyncFetches == 2

\* the get_diagram response for a server state: its components in id order
DiagramOf(components) ==
  [i \in 1..Cardinality(DOMAIN components) |-> components[AscendingSeq(DOMAIN components)[i]]]

\* The server's change-set changes: a component is created in it, or a
\* component created in it is removed again.
ServerChange(componentId) ==
  /\ srvChanges < MaxSrvChanges
  /\ srvChanges' = srvChanges + 1
  /\ serverComponents' =
       IF Has(serverComponents, componentId)
       THEN Delete(serverComponents, componentId)
       ELSE Put(serverComponents, componentId,
                [id |-> componentId, changeStatus |-> "added", deletedInfo |-> NoInfo])
  /\ freshFetch' = FALSE
  /\ UNCHANGED <<responses, unanswered, storeVars>>

\* FETCH_DIAGRAM_DATA, called on activation or by an event callback
SyncFetch ==
  /\ GetDiagram(MaxSyncFetches)
  /\ unanswered' = unanswered + 1
  /\ freshFetch' = TRUE
  /\ UNCHANGED <<rawComponentsById, edgesById, objs, selectedEdgeId, requests, nextEdgeId,
                 srvEnds, srvComps, threw>>
  /\ UNCHANGED <<serverComponents, responses, srvChanges>>

\* the server answers a request with its state of that moment
ServerAnswers ==
  /\ unanswered > 0
  /\ unanswered' = unanswered - 1
  /\ responses' = Append(responses, DiagramOf(serverComponents))
  /\ UNCHANGED <<serverComponents, srvChanges, freshFetch, storeVars>>

\* a response reaches the client, whichever was sent first: onSuccess runs
ResponseArrives(i) ==
  /\ i \in 1..Len(responses)
  /\ FetchDiagramDataSuccessWith(responses[i], <<>>)
  /\ responses' = RemoveAt(responses, i)
  /\ UNCHANGED <<serverComponents, unanswered, srvChanges, freshFetch>>

InitSync ==
  /\ InitStore
  /\ srvEnds = <<>>
  /\ srvComps = {}
  /\ SyncIdle
  /\ KeyedIdle /\ BulkIdle /\ EventIdle /\ JobIdle /\ WorkerIdle /\ ViewIdle /\ RestIdle

exceptSync == <<linVars, walkVars, keyedVars, bulkVars, eventVars, jobVars, workerVars, viewVars, restVars>>

NextSync ==
  \/ (\E componentId \in ComponentIds : ServerChange(componentId)) /\ UNCHANGED exceptSync
  \/ SyncFetch /\ UNCHANGED exceptSync
  \/ ServerAnswers /\ UNCHANGED exceptSync
  \/ (\E i \in 1..MaxSyncFetches : ResponseArrives(i)) /\ UNCHANGED exceptSync

SpecSync == InitSync /\ [][NextSync]_vars

\* every issued refresh has completed, and one was issued after the last
\* change of the server
Settled ==
  /\ freshFetch
  /\ unanswered = 0
  /\ responses = <<>>
  /\ pendingFetches = 0

\* C17: once the server state has stopped changing and every issued refresh
\* has completed, at least one of them issued after the last server change,
\* the client's maps equal the server's state, whatever the arrival order of
\* the responses.
C17_ConvergesToServer ==
  Settled => /\ rawComponentsById = serverComponents
             /\ EdgeView = <<>>

\* ------------------------------------------------------------------------
\* status_updates: the dependent-value job records
\* ------------------------------------------------------------------------
MaxRows == 2
MaxValues == 1

\* two roots, so that jobs of different roots are told apart
AttributeValueIds == {1, 2}
DependentValueIds == 1..MaxValues

\* this_tenancy: the tenancy of the caller, universal or of workspace 1
Tenancies ==
  {[tenancy_universal |-> TRUE, tenancy_workspace_ids |-> <<>>],
   [tenancy_universal |-> FALSE, tenancy_workspace_ids |-> <<1>>]}

\* tenancy_json_to_columns_v1(this_tenancy)
tenancy_json_to_columns_v1(this_tenancy) ==
  [tenancy_universal |-> this_tenancy.tenancy_universal,
   tenancy_billing_account_ids |-> <<>>,
   tenancy_organization_ids |-> <<>>,
   tenancy_workspace_ids |-> this_tenancy.tenancy_workspace_ids]

jsonb_build_object_queuedRoot(this_attribute_value_id) ==
  [attribute_value_id |-> this_attribute_value_id,
   dependent_values_metadata |-> <<>>,
   queued_dependent_value_ids |-> <<this_attribute_value_id>>,
   running_dependent_value_ids |-> <<>>,
   completed_dependent_value_ids |-> <<>>]

\* this_data := jsonb_build_object('attribute_value_id', this_attribute_value_id,
\*   'dependent_values_metadata', '{}', 'queued_dependent_value_ids', '[]', ...)
jsonb_build_object(this_attribute_value_id) ==
  [attribute_value_id |-> this_attribute_value_id,
   dependent_values_metadata |-> <<>>,
   queued_dependent_value_ids |-> <<>>,
   running_dependent_value_ids |-> <<>>,
   completed_dependent_value_ids |-> <<>>]

\* INSERT INTO status_updates (...) VALUES (...) RETURNING *: pk is the next
\* value of the bigserial
NewRow(this_tenancy_record, this_data) ==
  [pk |-> Len(status_updates) + 1,
   tenancy_universal |-> this_tenancy_record.tenancy_universal,
   tenancy_billing_account_ids |-> this_tenancy_record.tenancy_billing_account_ids,
   tenancy_organization_ids |-> this_tenancy_record.tenancy_organization_ids,
   tenancy_workspace_ids |-> this_tenancy_record.tenancy_workspace_ids,
   data |-> this_data]

status_update_create_v1_resetRoot(this_attribute_value_id, this_tenancy) ==
  /\ Len(status_updates) < MaxRows
  /\ status_updates' =
       Append([pk \in 1..Len(status_updates) |->
                 [status_updates[pk] EXCEPT
                    !.data = jsonb_build_object(status_updates[pk].data.attribute_value_id)]],
              NewRow(tenancy_json_to_columns_v1(this_tenancy),
                     jsonb_build_object(this_attribute_value_id)))

status_update_create_v1(this_attribute_value_id, this_tenancy) ==
  /\ Len(status_updates) < MaxRows
  /\ status_updates' =
       Append(status_updates,
              NewRow(tenancy_json_to_columns_v1(this_tenancy),
                     jsonb_build_object(this_attribute_value_id)))

WithData(pk, data) == [status_updates EXCEPT ![pk].data = data]

Without(list, id) == SelectSeq(list, LAMBDA x : x # id)

InList(list, id) == \E i \in 1..Len(list) : list[i] = id

Known(data, id) ==
  \/ InList(data.queued_dependent_value_ids, id)
  \/ InList(data.running_dependent_value_ids, id)
  \/ InList(data.completed_dependent_value_ids, id)

\* absent -> queued
Enqueue(pk, id) ==
  /\ pk \in 1..Len(status_updates)
  /\ ~Known(status_updates[pk].data, id)
  /\ status_updates' =
       WithData(pk, [status_updates[pk].data EXCEPT
                       !.queued_dependent_value_ids = Append(@, id)])

Claim_keepQueued(pk, id) ==
  /\ pk \in 1..Len(status_updates)
  /\ InList(status_updates[pk].data.queued_dependent_value_ids, id)
  /\ status_updates' =
       WithData(pk, [status_updates[pk].data EXCEPT
                       !.running_dependent_value_ids = Append(@, id)])

\* queued -> running: succeeds only if the id is currently queued
Claim(pk, id) ==
  /\ pk \in 1..Len(status_updates)
  /\ InList(status_updates[pk].data.queued_dependent_value_ids, id)
  /\ status_updates' =
       WithData(pk, [status_updates[pk].data EXCEPT
                       !.queued_dependent_value_ids = Without(@, id),
                       !.running_dependent_value_ids = Append(@, id)])

\* running -> completed
FinishValue(pk, id) ==
  /\ pk \in 1..Len(status_updates)
  /\ InList(status_updates[pk].data.running_dependent_value_ids, id)
  /\ status_updates' =
       WithData(pk, [status_updates[pk].data EXCEPT
                       !.running_dependent_value_ids = Without(@, id),
                       !.completed_dependent_value_ids = Append(@, id)])

InitJob ==
  /\ status_updates = <<>>
  /\ LinIdle /\ WalkIdle /\ StoreIdle
  /\ KeyedIdle /\ BulkIdle /\ EventIdle /\ SyncIdle /\ WorkerIdle /\ ViewIdle /\ RestIdle

exceptJob == <<linVars, walkVars, storeVars, keyedVars, bulkVars, eventVars, syncVars,
              workerVars, viewVars, restVars>>

NextJob ==
  \/ (\E id \in AttributeValueIds, tenancy \in Tenancies : status_update_create_v1(id, tenancy))
       /\ UNCHANGED exceptJob
  \/ (\E pk \in 1..MaxRows, id \in DependentValueIds : Enqueue(pk, id)) /\ UNCHANGED exceptJob
  \/ (\E pk \in 1..MaxRows, id \in DependentValueIds : Claim(pk, id)) /\ UNCHANGED exceptJob
  \/ (\E pk \in 1..MaxRows, id \in DependentValueIds : FinishValue(pk, id)) /\ UNCHANGED exceptJob

SpecJob == InitJob /\ [][NextJob]_vars

\* C19: creating a dependent-value job for a root attribute-value id produces
\* a record whose queued, running and completed lists are all empty, whose
\* metadata map is empty and whose attribute_value_id is the given root id.
C19_CreatedJobIsEmpty ==
  [][\A id \in AttributeValueIds, tenancy \in Tenancies :
       status_update_create_v1(id, tenancy)
         => LET object == status_updates'[Len(status_updates')]
            IN /\ Len(status_updates') = Len(status_updates) + 1
               /\ object.data.attribute_value_id = id
               /\ object.data.dependent_values_metadata = <<>>
               /\ object.data.queued_dependent_value_ids = <<>>
               /\ object.data.running_dependent_value_ids = <<>>
               /\ object.data.completed_dependent_value_ids = <<>>]_vars

\* a job has just been created next to a job that has made progress
C19_Witness ==
  /\ Len(status_updates) = 2
  /\ status_updates[1].data.completed_dependent_value_ids # <<>>
  /\ status_updates[2].data = jsonb_build_object(status_updates[2].data.attribute_value_id)
  /\ status_updates[2].data.attribute_value_id # status_updates[1].data.attribute_value_id

ListSet(list) == {list[i] : i \in 1..Len(list)}

\* C20: after any sequence of enqueue, claim and finish operations on a
\* dependent-value job its queued, running and completed sets are pairwise
\* disjoint.
C20_SetsPairwiseDisjoint ==
  \A pk \in 1..Len(status_updates) :
    LET data == status_updates[pk].data
    IN /\ ListSet(data.queued_dependent_value_ids)
            \cap ListSet(data.running_dependent_value_ids) = {}
       /\ ListSet(data.queued_dependent_value_ids)
            \cap ListSet(data.completed_dependent_value_ids) = {}
       /\ ListSet(data.running_dependent_value_ids)
            \cap ListSet(data.completed_dependent_value_ids) = {}

\* one job has a running value while another has a completed one
C20_Witness ==
  \E pk1, pk2 \in 1..Len(status_updates) :
    /\ status_updates[pk1].data.running_dependent_value_ids # <<>>
    /\ status_updates[pk2].data.completed_dependent_value_ids # <<>>

\* absent = 0, queued = 1, running = 2, completed = 3
StateOf(data, id) ==
  IF InList(data.completed_dependent_value_ids, id) THEN 3
  ELSE IF InList(data.running_dependent_value_ids, id) THEN 2
  ELSE IF InList(data.queued_dependent_value_ids, id) THEN 1
  ELSE 0

\* C21: each dependent-value id of a job moves only forward through
\* absent -> queued -> running -> completed: a job, once created, stays in the
\* table, an id that is in one of the three sets never leaves their union, and
\* it never moves from running back to queued or from completed back to
\* running or queued.
C21_ForwardOnly ==
  [][\A pk \in 1..Len(status_updates), id \in DependentValueIds :
       /\ pk \in 1..Len(status_updates')
       /\ StateOf(status_updates'[pk].data, id) >= StateOf(status_updates[pk].data, id)]_vars

\* a value of the first job has gone all the way to completed while the second
\* job, created later, has the same value still queued
C21_Witness ==
  /\ Len(status_updates) = 2
  /\ \E id \in DependentValueIds :
       /\ StateOf(status_updates[1].data, id) = 3
       /\ StateOf(status_updates[2].data, id) = 1

(***************************************************************************)
(* Workers claiming the values of the dependent-value jobs.                *)
(***************************************************************************)
MaxWorkers == 2

Workers == 1..MaxWorkers

NoAttempt == [pk |-> 0, id |-> 0, outcome |-> "idle"]

Attempt(pk, id, outcome) == [pk |-> pk, id |-> id, outcome |-> outcome]

\* a claim that takes the value whenever it is queued or running
ClaimAttempt_noCompare(w, pk, id) ==
  /\ workers[w].outcome \in {"idle", "lost"}
  /\ pk \in 1..Len(status_updates)
  /\ IF InList(status_updates[pk].data.queued_dependent_value_ids, id)
       THEN /\ Claim(pk, id)
            /\ workers' = [workers EXCEPT ![w] = Attempt(pk, id, "won")]
       ELSE /\ UNCHANGED status_updates
            /\ workers' =
                 [workers EXCEPT
                    ![w] = Attempt(pk, id,
                                   IF InList(status_updates[pk].data.running_dependent_value_ids, id)
                                     THEN "won" ELSE "lost")]

\* worker w attempts the queued -> running claim of value id of job pk: one
\* atomic compare-and-swap, which succeeds only if the id is currently queued
ClaimAttempt(w, pk, id) ==
  /\ workers[w].outcome \in {"idle", "lost"}
  /\ pk \in 1..Len(status_updates)
  /\ IF InList(status_updates[pk].data.queued_dependent_value_ids, id)
       THEN /\ Claim(pk, id)
            /\ workers' = [workers EXCEPT ![w] = Attempt(pk, id, "won")]
       ELSE /\ UNCHANGED status_updates
            /\ workers' = [workers EXCEPT ![w] = Attempt(pk, id, "lost")]

\* the worker that runs a value finishes it
WorkerFinish(w) ==
  /\ workers[w].outcome = "won"
  /\ FinishValue(workers[w].pk, workers[w].id)
  /\ workers' = [workers EXCEPT ![w].outcome = "done"]

InitClaim ==
  /\ status_updates = <<>>
  /\ workers = [w \in Workers |-> NoAttempt]
  /\ LinIdle /\ WalkIdle /\ StoreIdle
  /\ KeyedIdle /\ BulkIdle /\ EventIdle /\ SyncIdle /\ ViewIdle /\ RestIdle

exceptClaim == <<linVars, walkVars, storeVars, keyedVars, bulkVars, eventVars, syncVars,
                viewVars, restVars>>

NextClaim ==
  \/ (\E id \in AttributeValueIds, tenancy \in Tenancies : status_update_create_v1(id, tenancy))
       /\ UNCHANGED <<exceptClaim, workers>>
  \/ (\E pk \in 1..MaxRows, id \in DependentValueIds : Enqueue(pk, id))
       /\ UNCHANGED <<exceptClaim, workers>>
  \/ (\E w \in Workers, pk \in 1..MaxRows, id \in DependentValueIds : ClaimAttempt(w, pk, id))
       /\ UNCHANGED exceptClaim
  \/ (\E w \in Workers : WorkerFinish(w)) /\ UNCHANGED exceptClaim

SpecClaim == InitClaim /\ [][NextClaim]_vars

\* the workers whose last attempt on value id of job pk had one of the outcomes
WorkersWith(pk, id, outcomes) ==
  {w \in Workers : /\ workers[w].pk = pk
                    /\ workers[w].id = id
                    /\ workers[w].outcome \in outcomes}

Occurrences(list, id) == Cardinality({i \in 1..Len(list) : list[i] = id})

\* C22: when several workers attempt the queued -> running claim of the same
\* dependent-value id, exactly one attempt succeeds and the others fail: an
\* id that is running is running under exactly one worker, an id that is not
\* running is running under none, an id that has left queued was won by
\* exactly one worker, and an attempt succeeds only if the id was queued.
C22_ExactlyOneClaimSucceeds ==
  /\ [](\A pk \in 1..Len(status_updates), id \in DependentValueIds :
          LET data == status_updates[pk].data
          IN /\ Occurrences(data.running_dependent_value_ids, id)
                  = Cardinality(WorkersWith(pk, id, {"won"}))
             /\ Cardinality(WorkersWith(pk, id, {"won"})) <= 1
             /\ Occurrences(data.running_dependent_value_ids, id)
                  + Occurrences(data.completed_dependent_value_ids, id)
                  = Cardinality(WorkersWith(pk, id, {"won", "done"})))
  /\ [][\A w \in Workers, pk \in 1..MaxRows, id \in DependentValueIds :
          ClaimAttempt(w, pk, id)
            => (workers'[w].outcome = "won"
                  <=> InList(status_updates[pk].data.queued_dependent_value_ids, id))]_vars

\* two workers have attempted the claim of the same value of the same job: one
\* has won and the other has lost
C22_Witness ==
  \E w1, w2 \in Workers :
    /\ w1 # w2
    /\ workers[w1].outcome = "won"
    /\ workers[w2] = Attempt(workers[w1].pk, workers[w1].id, "lost")
    /\ InList(status_updates[workers[w1].pk].data.running_dependent_value_ids, workers[w1].id)

\* ------------------------------------------------------------------------
\* proposedActions on action sets with dangling parents; its effect on the
\* change-set's action map
\* ------------------------------------------------------------------------
\* some action lists a parent id that names no action of the set
Dangling(graph) == ~Closed(graph)

\* no action of the map can be released: the iteration of the while loop
\* changes nothing and the loop condition stays true
Blocked(graph) == graph # <<>> /\ Released(graph) = <<>>

\* C23: on an acyclic action set in which some action lists a parent id that
\* names no action of the set, the getter terminates: the loop never reaches
\* a map that is not empty and from which no action can be released.
C23_DanglingParentNeverBlocks ==
  (linPc = "running" /\ linEvals = 0 /\ Dangling(linInput) /\ ~HasCycle(linInput))
    => ~Blocked(selectedChangeSet.actions)

\* C24: evaluating the getter leaves the selected change-set's action map and
\* every action's parents list unchanged: after the evaluation the map is the
\* map the evaluation started on.
C24_GetterLeavesMapUnchanged ==
  (linPc = "idle" /\ linEvals = 1 /\ selectedChangeSet.present)
    => selectedChangeSet.actions = linInput

\* ------------------------------------------------------------------------
\* Rollback of RESTORE_EDGE
\* ------------------------------------------------------------------------
\* C25: if the remote call of RESTORE_EDGE on a tombstoned edge fails (and no
\* other handler ran in between), the rollback leaves the edge with
\* changeStatus "deleted" and with its original deletedInfo, exactly as it was
\* before the restore was attempted.
C25_RestoreEdgeRollbackKeepsTombstone ==
  [][\A slot \in Slots :
       (/\ requests[slot].op = "RESTORE_EDGE"
        /\ requests[slot].clean
        /\ requests[slot].pre.edges[requests[slot].key].changeStatus = "deleted"
        /\ RestoreEdgeFail(slot))
         => /\ Has(edgesById', requests[slot].key)
            /\ EdgeView'[requests[slot].key].changeStatus = "deleted"
            /\ EdgeView'[requests[slot].key].deletedInfo
                 = requests[slot].pre.edges[requests[slot].key].deletedInfo
            /\ EdgeView'[requests[slot].key] = requests[slot].pre.edges[requests[slot].key]]_vars

\* ------------------------------------------------------------------------
\* Success of create_connection after a refresh
\* ------------------------------------------------------------------------
\* C26: if a full refresh replaced the edge map between the optimistic
\* insertion of a provisional edge and the success response of
\* create_connection, the success handler adds, renames and removes no edge:
\* it leaves the edge map as it finds it.
C26_SuccessAfterRefreshChangesNothing ==
  [][\A slot \in Slots :
       (CreateConnectionSuccess(slot) /\ requests[slot].refreshed)
         => /\ DOMAIN edgesById' = DOMAIN edgesById
            /\ EdgeView' = EdgeView]_vars

\* ------------------------------------------------------------------------
\* RESTORE_COMPONENT on a tombstoned component
\* ------------------------------------------------------------------------
\* C27: RESTORE_COMPONENT on a tombstoned component clears its deletedInfo and
\* sets its changeStatus to "unmodified" in the local store as soon as it is
\* performed, and the tombstone is back when the remote call has failed.
C27_RestoreComponentIsOptimistic ==
  [][/\ \A componentId \in ComponentIds :
          (/\ Has(rawComponentsById, componentId)
           /\ rawComponentsById[componentId].changeStatus = "deleted"
           /\ RESTORE_COMPONENT(componentId))
            => /\ rawComponentsById'[componentId].changeStatus = "unmodified"
               /\ rawComponentsById'[componentId].deletedInfo = NoInfo
     /\ \A slot \in Slots :
          (/\ requests[slot].clean
           /\ Has(requests[slot].pre.components, requests[slot].key)
           /\ requests[slot].pre.components[requests[slot].key].changeStatus = "deleted"
           /\ RestoreComponentResolved(slot))
            => rawComponentsById'[requests[slot].key]
                 = requests[slot].pre.components[requests[slot].key]]_vars

\* ------------------------------------------------------------------------
\* Components store: derived parent/child views (componentsById,
\* componentsByParentId, parentIdPathByComponentId, deepChildIdsByComponentId)
\* ------------------------------------------------------------------------
MaxChildren == 1
MaxViewSteps == 10

\* The node id of a component is not its component id: component c has node
\* c + 1, so node 1 belongs to no component.
NodeOf(id) == id + 1

TreeNodeIds(allIds) == {1} \cup {NodeOf(c) : c \in allIds}

NodeTypes == {"component", "configurationFrame"}

\* "root", the group key of the components without parentNodeId
RootKey == 0

\* RawComponent, with the fields the views read; parentNodeId is 0 when the
\* optional field is absent.
RawComponents(ids, nodeIds) ==
  { [c \in ids |->
       [id |-> c, nodeId |-> NodeOf(c), parentNodeId |-> f[c].parentNodeId,
        childNodeIds |-> f[c].childNodeIds, nodeType |-> f[c].nodeType]]
    : f \in [ids -> [parentNodeId : {0} \cup nodeIds,
                     childNodeIds : NoDupSeqs(nodeIds, MaxChildren),
                     nodeType : NodeTypes]] }

\* rawComponentsById as a refresh can deliver it
TreeMaps(allIds) == UNION {RawComponents(ids, TreeNodeIds(allIds)) : ids \in SUBSET allIds}

\* map[key], undefined (0) for a key the object does not have
Lookup(map, key) == IF key \in DOMAIN map THEN map[key] ELSE 0

\* _.mapValues(_.keyBy(this.rawComponentsById, (c) => c.nodeId), (c) => c.id)
nodeIdToComponentId(raw) ==
  [n \in {raw[k].nodeId : k \in DOMAIN raw} |->
     CHOOSE k \in DOMAIN raw :
       raw[k].nodeId = n /\ \A j \in DOMAIN raw : raw[j].nodeId = n => j <= k]

\* componentsById: rc plus parentId, childIds and isGroup
componentsById(raw) ==
  [k \in DOMAIN raw |->
     [id |-> raw[k].id,
      nodeId |-> raw[k].nodeId,
      parentNodeId |-> raw[k].parentNodeId,
      childNodeIds |-> raw[k].childNodeIds,
      nodeType |-> raw[k].nodeType,
      parentId |-> IF raw[k].parentNodeId # 0
                     THEN Lookup(nodeIdToComponentId(raw), raw[k].parentNodeId)
                     ELSE 0,
      childIds |-> [i \in 1..Len(raw[k].childNodeIds) |->
                      Lookup(nodeIdToComponentId(raw), raw[k].childNodeIds[i])],
      isGroup |-> raw[k].nodeType # "component"]]

\* allComponents: _.values(this.componentsById)
allComponents(raw) ==
  LET ks == AscendingSeq(DOMAIN raw)
  IN [i \in 1..Len(ks) |-> componentsById(raw)[ks[i]]]

\* componentsByNodeId: _.keyBy(_.values(this.componentsById), (c) => c.nodeId)
componentsByNodeId(raw) ==
  LET all == allComponents(raw)
  IN [n \in {all[i].nodeId : i \in 1..Len(all)} |->
        all[CHOOSE i \in 1..Len(all) :
              all[i].nodeId = n /\ \A j \in (i + 1)..Len(all) : all[j].nodeId # n]]

\* this.componentsByNodeId[c.parentNodeId].id reads a property of undefined
ParentKeyThrows(raw, c) ==
  c.parentNodeId # 0 /\ c.parentNodeId \notin DOMAIN componentsByNodeId(raw)

\* c.parentNodeId ? this.componentsByNodeId[c.parentNodeId].id : "root"
ParentKey(raw, c) ==
  IF c.parentNodeId # 0 THEN componentsByNodeId(raw)[c.parentNodeId].id ELSE RootKey

\* componentsByParentId: _.groupBy(this.allComponents, ...); threw when the
\* iteratee throws a TypeError
componentsByParentId(raw) ==
  LET all == allComponents(raw)
  IN IF \E i \in 1..Len(all) : ParentKeyThrows(raw, all[i])
     THEN [threw |-> TRUE, value |-> <<>>]
     ELSE [threw |-> FALSE,
           value |-> [key \in {ParentKey(raw, all[i]) : i \in 1..Len(all)} |->
                        SelectSeq(all, LAMBDA c : ParentKey(raw, c) = key)]]

\* what reading a getter leaves alone in the store
storeData == <<rawComponentsById, edgesById, objs, selectedEdgeId, requests, pendingFetches,
               nextEdgeId, srvEnds, srvComps>>

\* the getter componentsByParentId is read
ReadComponentsByParentId ==
  /\ viewPc = "idle"
  /\ LET groups == componentsByParentId(rawComponentsById)
     IN /\ threw' = groups.threw
        /\ viewOut' = groups.value
  /\ viewGetter' = "componentsByParentId"
  /\ viewPc' = "done"
  /\ UNCHANGED <<viewStack, viewTodo, viewSteps, storeData>>

\* a list as _.each sees it: nothing to visit when the value is undefined
EachOf(groups, key) == IF key \in DOMAIN groups THEN [i \in DOMAIN groups[key] |-> groups[key][i].id] ELSE <<>>

\* parentIdPathByComponentId is read: parentsLookup = {};
\* processList(this.componentsByParentId.root, [])
PathStart ==
  /\ viewPc = "idle"
  /\ viewGetter' = "parentIdPathByComponentId"
  /\ LET groups == componentsByParentId(rawComponentsById)
     IN IF groups.threw
        THEN /\ threw' = TRUE
             /\ viewPc' = "done"
             /\ viewStack' = <<>>
        ELSE /\ threw' = FALSE
             /\ viewPc' = "path"
             /\ viewStack' = <<[list |-> EachOf(groups.value, RootKey), idx |-> 1,
                                parentIds |-> <<>>]>>
  /\ viewOut' = <<>>
  /\ UNCHANGED <<viewTodo, viewSteps, storeData>>

\* one step of processList in the innermost call: the next element of _.each
\* (parentsLookup[c.id] = parentIds; processList(componentsByParentId[c.id],
\* [...parentIds, c.id])), or the return when the list is exhausted
PathStep ==
  /\ viewPc = "path"
  /\ viewStack # <<>>
  /\ viewSteps < MaxViewSteps
  /\ LET top == viewStack[Len(viewStack)]
         below == SubSeq(viewStack, 1, Len(viewStack) - 1)
         groups == componentsByParentId(rawComponentsById).value
     IN IF top.idx > Len(top.list)
        THEN /\ viewStack' = below
             /\ viewOut' = viewOut
        ELSE LET c == top.list[top.idx]
             IN /\ viewOut' = Put(viewOut, c, top.parentIds)
                /\ viewStack' = below \o <<[top EXCEPT !.idx = top.idx + 1]>>
                                  \o <<[list |-> EachOf(groups, c), idx |-> 1,
                                        parentIds |-> Append(top.parentIds, c)]>>
  /\ viewSteps' = viewSteps + 1
  /\ UNCHANGED <<viewPc, viewGetter, viewTodo, storeData, threw>>

\* processList(root, []) has returned: return parentsLookup
PathReturn ==
  /\ viewPc = "path"
  /\ viewStack = <<>>
  /\ viewPc' = "done"
  /\ UNCHANGED <<viewGetter, viewOut, viewStack, viewTodo, viewSteps, storeData, threw>>

\* deepChildIdsByComponentId is read: _.mapValues(this.componentsById, ...)
DeepStart ==
  /\ viewPc = "idle"
  /\ viewGetter' = "deepChildIdsByComponentId"
  /\ viewPc' = "deep"
  /\ viewTodo' = AscendingSeq(DOMAIN rawComponentsById)
  /\ viewOut' = <<>>
  /\ viewStack' = <<>>
  /\ threw' = FALSE
  /\ UNCHANGED <<viewSteps, storeData>>

\* _.mapValues calls getDeepChildIds(id) for the next component
DeepNext ==
  /\ viewPc = "deep"
  /\ viewStack = <<>>
  /\ viewTodo # <<>>
  /\ viewSteps < MaxViewSteps
  /\ viewStack' = <<[id |-> Head(viewTodo), idx |-> 1, acc |-> <<>>]>>
  /\ viewSteps' = viewSteps + 1
  /\ UNCHANGED <<viewPc, viewGetter, viewOut, viewTodo, storeData, threw>>

\* one step of getDeepChildIds in the innermost call: component =
\* this.componentsById[id]; if (!component.isGroup) return []; the next call
\* of _.flatMap(component.childIds, getDeepChildIds); or the return of
\* [...childIds, ...flatMap result]
DeepStep ==
  /\ viewPc = "deep"
  /\ viewStack # <<>>
  /\ viewSteps < MaxViewSteps
  /\ viewSteps' = viewSteps + 1
  /\ LET top == viewStack[Len(viewStack)]
         below == SubSeq(viewStack, 1, Len(viewStack) - 1)
         all == componentsById(rawComponentsById)
     IN IF top.id \notin DOMAIN all
        THEN \* component is undefined: component.isGroup throws a TypeError
             /\ threw' = TRUE
             /\ viewPc' = "done"
             /\ viewStack' = <<>>
             /\ UNCHANGED <<viewOut, viewTodo>>
        ELSE LET component == all[top.id]
                 returns == ~component.isGroup \/ top.idx > Len(component.childIds)
                 value == IF ~component.isGroup THEN <<>> ELSE component.childIds \o top.acc
             IN /\ threw' = FALSE
                /\ viewPc' = "deep"
                /\ IF ~returns
                   THEN /\ viewStack' = viewStack \o <<[id |-> component.childIds[top.idx],
                                                        idx |-> 1, acc |-> <<>>]>>
                        /\ UNCHANGED <<viewOut, viewTodo>>
                   ELSE IF below = <<>>
                   THEN /\ viewStack' = <<>>
                        /\ viewOut' = Put(viewOut, top.id, value)
                        /\ viewTodo' = Tail(viewTodo)
                   ELSE /\ viewStack' =
                             SubSeq(below, 1, Len(below) - 1)
                               \o <<[below[Len(below)] EXCEPT !.idx = @ + 1, !.acc = @ \o value]>>
                        /\ UNCHANGED <<viewOut, viewTodo>>
  /\ UNCHANGED <<viewGetter, storeData>>

\* every component has been visited: return the map
DeepReturn ==
  /\ viewPc = "deep"
  /\ viewStack = <<>>
  /\ viewTodo = <<>>
  /\ viewPc' = "done"
  /\ UNCHANGED <<viewGetter, viewOut, viewStack, viewTodo, viewSteps, storeData, threw>>

InitTree ==
  /\ rawComponentsById \in TreeMaps(ComponentIds)
  /\ edgesById = <<>>
  /\ objs = <<>>
  /\ selectedEdgeId = 0
  /\ pendingFetches = 0
  /\ threw = FALSE
  /\ requests = <<>>
  /\ nextEdgeId = 0
  /\ srvEnds = <<>>
  /\ srvComps = {}
  /\ viewPc = "idle"
  /\ viewGetter = ""
  /\ viewOut = <<>>
  /\ viewStack = <<>>
  /\ viewTodo = <<>>
  /\ viewSteps = 0
  /\ LinIdle /\ WalkIdle
  /\ KeyedIdle /\ BulkIdle /\ EventIdle /\ SyncIdle /\ JobIdle /\ WorkerIdle /\ RestIdle

exceptView == <<linVars, walkVars, keyedVars, bulkVars, eventVars, syncVars, jobVars, workerVars, restVars>>

NextTree ==
  \/ ReadComponentsByParentId /\ UNCHANGED exceptView
  \/ PathStart /\ UNCHANGED exceptView
  \/ PathStep /\ UNCHANGED exceptView
  \/ PathReturn /\ UNCHANGED exceptView
  \/ DeepStart /\ UNCHANGED exceptView
  \/ DeepNext /\ UNCHANGED exceptView
  \/ DeepStep /\ UNCHANGED exceptView
  \/ DeepReturn /\ UNCHANGED exceptView

SpecTree == InitTree /\ [][NextTree]_vars

\* some component's parentNodeId names a node no stored component has
DanglingParent(raw) ==
  \E k \in DOMAIN raw :
    raw[k].parentNodeId # 0 /\ \A j \in DOMAIN raw : raw[j].nodeId # raw[k].parentNodeId

\* C28: componentsByParentId and parentIdPathByComponentId are computed
\* without error when a component's parentNodeId names a node absent from
\* the store: reading them throws nothing.
C28_DanglingParentNoCrash ==
  (/\ viewGetter \in {"componentsByParentId", "parentIdPathByComponentId"}
   /\ DanglingParent(rawComponentsById))
    => ~threw

\* the ids of the calls of getDeepChildIds on the stack, outermost first
DeepCalls == [i \in 1..Len(viewStack) |-> viewStack[i].id]

\* the component whose children each call of processList on the stack visits
\* (the root call has none)
PathCalls == [i \in 1..(Len(viewStack) - 1) |-> viewStack[i + 1].parentIds[i]]

NoRepeat(seq) == \A i, j \in 1..Len(seq) : i # j => seq[i] # seq[j]

\* C30: the component-tree traversals terminate for every component set,
\* cyclic ones included: no call of getDeepChildIds is made for a component
\* while a call for the same component is still on the stack, and likewise
\* for processList, so the recursion depth never exceeds the number of
\* components.
C30_TraversalsTerminate ==
  /\ viewPc = "deep" => NoRepeat(DeepCalls)
  /\ viewPc = "path" => NoRepeat(PathCalls)

\* ------------------------------------------------------------------------
\* Components store: derived edge views (allEdges, diagramEdges,
\* edgesByFromNodeId, edgesByToNodeId) and getDependentComponents
\* ------------------------------------------------------------------------
MaxViewEdges == 2

\* components without parent and children, on any subset of the ids
PlainComponents(allIds) == UNION {RawComponents(ids, {}) : ids \in SUBSET allIds}

\* the edges of a diagram: edge k under key k, between any two nodes
StoredEdges(nodeIds) ==
  UNION { { [k \in 1..n |->
               NewEdge(k, [fromNodeId |-> ends[k][1], fromSocketId |-> 1,
                           toNodeId |-> ends[k][2], toSocketId |-> 2],
                       "unmodified", ServerInfo, NoInfo)]
            : ends \in [1..n -> nodeIds \X nodeIds] }
          : n \in 0..MaxViewEdges }

\* allEdges: _.values(state.edgesById)
allEdges ==
  LET ks == AscendingSeq(DOMAIN edgesById)
  IN [i \in 1..Len(ks) |-> EdgeView[ks[i]]]

\* diagramEdges: return this.allEdges
diagramEdges == allEdges

\* edgesByFromNodeId: _.groupBy(this.allEdges, (e) => e.fromNodeId)
edgesByFromNodeId ==
  [n \in {allEdges[i].fromNodeId : i \in 1..Len(allEdges)} |->
     SelectSeq(allEdges, LAMBDA e : e.fromNodeId = n)]

\* edgesByToNodeId: _.groupBy(this.allEdges, (e) => e.toNodeId)
edgesByToNodeId ==
  [n \in {allEdges[i].toNodeId : i \in 1..Len(allEdges)} |->
     SelectSeq(allEdges, LAMBDA e : e.toNodeId = n)]

\* an edge getter is read
ReadEdgeView(getter, value) ==
  /\ viewPc = "idle"
  /\ viewGetter' = getter
  /\ viewOut' = value
  /\ viewPc' = "done"
  /\ UNCHANGED <<viewStack, viewTodo, viewSteps, storeData, threw>>

ReadDiagramEdges == ReadEdgeView("diagramEdges", diagramEdges)

ReadEdgesByFromNodeId == ReadEdgeView("edgesByFromNodeId", edgesByFromNodeId)

ReadEdgesByToNodeId == ReadEdgeView("edgesByToNodeId", edgesByToNodeId)

\* getDependentComponents is called with the node of a stored component
ReadGetDependentComponents(componentId) ==
  ReadEdgeView("getDependentComponents", getDependentComponents(allEdges, componentId))

\* getDependentComponents is called with the id of a stored component, as its
\* parameter componentId: ComponentId says
ReadDependentsOfComponent(componentId) ==
  ReadEdgeView("getDependentComponents(componentId)",
               getDependentComponents(allEdges, componentId))

\* the nodes of the stored components
StoredNodes == {rawComponentsById[k].nodeId : k \in DOMAIN rawComponentsById}

InitViews ==
  /\ rawComponentsById \in PlainComponents(ComponentIds)
  /\ \E edges \in StoredEdges(NodeIds) :
       /\ edgesById = [k \in DOMAIN edges |-> k]
       /\ objs = edges
  /\ selectedEdgeId = 0
  /\ pendingFetches = 0
  /\ threw = FALSE
  /\ requests = <<>>
  /\ nextEdgeId = 0
  /\ srvEnds = <<>>
  /\ srvComps = {}
  /\ viewPc = "idle"
  /\ viewGetter = ""
  /\ viewOut = <<>>
  /\ viewStack = <<>>
  /\ viewTodo = <<>>
  /\ viewSteps = 0
  /\ LinIdle /\ WalkIdle
  /\ KeyedIdle /\ BulkIdle /\ EventIdle /\ SyncIdle /\ JobIdle /\ WorkerIdle /\ RestIdle

NextViews ==
  \/ ReadDiagramEdges /\ UNCHANGED exceptView
  \/ ReadEdgesByFromNodeId /\ UNCHANGED exceptView
  \/ ReadEdgesByToNodeId /\ UNCHANGED exceptView
  \/ (\E componentId \in StoredNodes : ReadGetDependentComponents(componentId))
       /\ UNCHANGED exceptView
  \/ (\E componentId \in DOMAIN rawComponentsById : ReadDependentsOfComponent(componentId))
       /\ UNCHANGED exceptView

SpecViews == InitViews /\ [][NextViews]_vars

BothEndsStored(edge) == edge.fromNodeId \in StoredNodes /\ edge.toNodeId \in StoredNodes

\* C29: diagramEdges, edgesByFromNodeId and edgesByToNodeId contain no edge,
\* and the result of getDependentComponents no id, whose from-node or to-node
\* is absent from the component store.
C29_ViewsHaveNoDanglingEdge ==
  /\ viewGetter = "diagramEdges"
       => \A i \in 1..Len(viewOut) : BothEndsStored(viewOut[i])
  /\ viewGetter \in {"edgesByFromNodeId", "edgesByToNodeId"}
       => \A n \in DOMAIN viewOut : \A i \in 1..Len(viewOut[n]) : BothEndsStored(viewOut[n][i])
  /\ viewGetter = "getDependentComponents"
       => \A i \in 1..Len(viewOut) : viewOut[i] \in StoredNodes

\* ------------------------------------------------------------------------
\* Jobs per root attribute value
\* ------------------------------------------------------------------------
\* C31: at most one dependent-value job record exists per root
\* attribute-value id: after the creation procedure has been invoked twice for
\* the same root the table holds no two records for that root.
C31_OneJobPerRoot ==
  \A pk1, pk2 \in 1..Len(status_updates) :
    status_updates[pk1].data.attribute_value_id = status_updates[pk2].data.attribute_value_id
      => pk1 = pk2

\* ------------------------------------------------------------------------
\* Keys of the edge map
\* ------------------------------------------------------------------------
\* C32: after any sequence of optimistic operations, their successes and
\* rollbacks, and full refreshes, every entry of the edge map is stored under
\* its own id: edgesById[k].id = k for every key k.
C32_EdgesStoredUnderOwnId ==
  \A k \in DOMAIN edgesById : EdgeView[k].id = k

\* ------------------------------------------------------------------------
\* Components store: selection (setSelectedEdgeId, setSelectedComponentId)
\* and the edge operations that write selectedEdgeId
\* ------------------------------------------------------------------------
MaxSelect == 2

\* the ids a caller can pass: those of the stored components and one more
SelectableIds == 1..(MaxComps + 1)

\* _.uniq: the first occurrence of each value, in order
RECURSIVE uniq(_)
uniq(seq) ==
  IF seq = <<>> THEN <<>>
  ELSE LET init == uniq(SubSeq(seq, 1, Len(seq) - 1))
           last == seq[Len(seq)]
       IN IF last \in Range(init) THEN init ELSE Append(init, last)

\* _.xor(a, b): the values found in exactly one of the arrays
xor(a, b) ==
  uniq(SelectSeq(a, LAMBDA x : x \notin Range(b)) \o SelectSeq(b, LAMBDA x : x \notin Range(a)))

\* setSelectedEdgeId(selection): selection is an edge id or 0 for null
setSelectedEdgeId(selection) ==
  /\ selectedComponentIds' = <<>>
  /\ selectedEdgeId' = selection
  /\ StoreEdges(edgesById, objs, Touched(requests, 0))
  /\ UNCHANGED <<rawComponentsById, pendingFetches, nextEdgeId, srvEnds, srvComps, threw,
                 selectedBefore>>

\* setSelectedComponentId(selection, toggleMode): selection is the list of ids
\* passed (a single id is a list of one, null the empty list)
setSelectedComponentId(selection, toggleMode) ==
  /\ selectedEdgeId' = 0
  /\ IF selection = <<>>
     THEN selectedComponentIds' = <<>>
     ELSE LET validSelectionArray == SelectSeq(selection, LAMBDA id : Has(rawComponentsById, id))
          IN IF toggleMode
             THEN selectedComponentIds' = xor(selectedComponentIds, validSelectionArray)
             ELSE selectedComponentIds' = validSelectionArray
  /\ StoreEdges(edgesById, objs, Touched(requests, 0))
  /\ UNCHANGED <<rawComponentsById, pendingFetches, nextEdgeId, srvEnds, srvComps, threw,
                 selectedBefore>>

\* the edge operation performed now finds selectedEdgeId as it is
Performed == selectedBefore' = [selectedBefore EXCEPT ![FreeSlot] = selectedEdgeId]

\* a diagram of all components, unmodified, and one edge; nothing selected
InitSelect ==
  /\ rawComponentsById =
       [c \in ComponentIds |-> [id |-> c, changeStatus |-> "unmodified", deletedInfo |-> NoInfo]]
  /\ \E st \in ChangeStatuses :
       objs = <<NewEdge(1, ConnectionEnds(1), st, ServerInfo, ServerInfoFor(st))>>
  /\ edgesById = <<1>>
  /\ selectedEdgeId = 0
  /\ pendingFetches = 0
  /\ threw = FALSE
  /\ requests = [s \in Slots |-> IdleRequest]
  /\ nextEdgeId = 2
  /\ srvEnds = <<ConnectionEnds(1)>>
  /\ srvComps = ComponentIds
  /\ selectedComponentIds = <<>>
  /\ selectedBefore = [s \in Slots |-> 0]
  /\ LinIdle /\ WalkIdle
  /\ KeyedIdle /\ BulkIdle /\ EventIdle /\ SyncIdle /\ JobIdle /\ WorkerIdle /\ ViewIdle
  /\ WorkspaceIdle /\ FlagIdle

exceptSelect == <<linVars, walkVars, keyedVars, bulkVars, eventVars, syncVars, jobVars,
                  workerVars, viewVars, workspaceVars, flagVars>>

NextSelect ==
  \/ (\E selection \in {0} \cup DOMAIN edgesById : setSelectedEdgeId(selection))
       /\ UNCHANGED exceptSelect
  \/ (\E selection \in SeqsUpTo(SelectableIds, MaxSelect), toggleMode \in BOOLEAN :
        setSelectedComponentId(selection, toggleMode))
       /\ UNCHANGED exceptSelect
  \/ (\E edgeId \in DOMAIN edgesById : DELETE_EDGE(edgeId) /\ Performed)
       /\ UNCHANGED <<selectedComponentIds, exceptSelect>>
  \/ (\E slot \in Slots : DeleteEdgeSuccess(slot)) /\ UNCHANGED <<selectVars, exceptSelect>>
  \/ (\E slot \in Slots : DeleteEdgeFail(slot)) /\ UNCHANGED <<selectVars, exceptSelect>>
  \/ (\E edgeId \in DOMAIN edgesById : RESTORE_EDGE(edgeId) /\ Performed)
       /\ UNCHANGED <<selectedComponentIds, exceptSelect>>
  \/ (\E slot \in Slots : RestoreEdgeSuccess(slot)) /\ UNCHANGED <<selectVars, exceptSelect>>
  \/ (\E slot \in Slots : RestoreEdgeFail(slot)) /\ UNCHANGED <<selectVars, exceptSelect>>

SpecSelect == InitSelect /\ [][NextSelect]_vars

\* C33: in every reachable state an edge selection and a component selection
\* are never both present: selectedEdgeId is null or selectedComponentIds is
\* empty, for any interleaving of setSelectedEdgeId, setSelectedComponentId,
\* the optimistic edge operations and their rollbacks.
C33_OneKindOfSelection ==
  selectedEdgeId = 0 \/ selectedComponentIds = <<>>

\* C34: when the remote call of DELETE_EDGE or RESTORE_EDGE fails, the
\* rollback leaves selectedEdgeId equal to the value it had immediately
\* before the operation was performed (no other handler ran in between).
C34_RollbackRestoresSelection ==
  [][\A slot \in Slots :
       (requests[slot].clean /\ (DeleteEdgeFail(slot) \/ RestoreEdgeFail(slot)))
         => selectedEdgeId' = selectedBefore[slot]]_vars

\* ------------------------------------------------------------------------
\* getDependentComponents on components whose id is not their node id
\* ------------------------------------------------------------------------
\* the ids of the components whose node an edge path from the node of
\* componentId reaches
DependentComponents(componentId) ==
  {k \in DOMAIN rawComponentsById :
     rawComponentsById[k].nodeId
       \in ReachableSet(allEdges, rawComponentsById[componentId].nodeId)}

\* C35: for a component whose id differs from its nodeId,
\* getDependentComponents(componentId) returns the component ids of all
\* components reachable from it along edges: no node id among them, and not
\* the root alone when edges leave the root.
C35_DependentsAreComponentIds ==
  viewGetter = "getDependentComponents(componentId)"
    => Range(viewOut) = DependentComponents(viewOut[1])

\* ------------------------------------------------------------------------
\* Workspaces store: import state and realtime subscription
\* ------------------------------------------------------------------------
MaxWorkspaces == 2
MaxUsers == 1
MaxWorkspaceRequests == 1
MaxWorkspaceEvents == 3
MaxClock == 1

WorkspacePks == 1..MaxWorkspaces

UserPks == 1..MaxUsers

Votes == {"Approve", "Reject"}

\* new Date().toISOString(): some reading of the clock
Times == 1..MaxClock

\* selectedWorkspace: _.get(this.workspacesByPk, this.urlSelectedWorkspaceId || "", null);
\* selectedWorkspacePk: this.selectedWorkspace?.pk || null (0 for null)
selectedWorkspacePk ==
  IF urlSelectedWorkspaceId \in workspacesByPk THEN urlSelectedWorkspaceId ELSE 0

\* `workspace/${pk}`; pk null gives "workspace/null"
Topic(pk) == <<"workspace", pk>>

\* the route changes (router store): params.workspacePk is a pk or undefined
RouteChange(pk) ==
  /\ urlSelectedWorkspaceId # pk
  /\ urlSelectedWorkspaceId' = pk
  /\ UNCHANGED <<workspacesByPk, workspaceImportSummary, workspaceApprovals, importCompletedAt,
                 importCancelledAt, workspaceTopic, workspaceRequests, workspaceLog>>

\* new ApiRequest / AuthApiRequest: the call is in flight
WorkspaceCall(op) == workspaceRequests' = Append(workspaceRequests, op)

WorkspaceCallDone(i) == workspaceRequests' = RemoveAt(workspaceRequests, i)

FETCH_USER_WORKSPACES ==
  /\ Len(workspaceRequests) < MaxWorkspaceRequests
  /\ WorkspaceCall("FETCH_USER_WORKSPACES")
  /\ UNCHANGED <<workspacesByPk, workspaceImportSummary, workspaceApprovals, importCompletedAt,
                 importCancelledAt, urlSelectedWorkspaceId, workspaceTopic, workspaceLog>>

\* onSuccess: this.workspacesByPk = _.keyBy(renameIdList, "pk"); the server
\* lists the user's workspaces
FetchUserWorkspacesSuccess(i) ==
  /\ i \in 1..Len(workspaceRequests)
  /\ workspaceRequests[i] = "FETCH_USER_WORKSPACES"
  /\ workspacesByPk' = WorkspacePks
  /\ WorkspaceCallDone(i)
  /\ UNCHANGED <<workspaceImportSummary, workspaceApprovals, importCompletedAt,
                 importCancelledAt, urlSelectedWorkspaceId, workspaceTopic, workspaceLog>>

BEGIN_WORKSPACE_IMPORT ==
  /\ Len(workspaceRequests) < MaxWorkspaceRequests
  /\ workspaceApprovals' = <<>>
  /\ WorkspaceCall("BEGIN_WORKSPACE_IMPORT")
  /\ UNCHANGED <<workspacesByPk, workspaceImportSummary, importCompletedAt,
                 importCancelledAt, urlSelectedWorkspaceId, workspaceTopic, workspaceLog>>

CANCEL_APPROVAL_PROCESS ==
  /\ Len(workspaceRequests) < MaxWorkspaceRequests
  /\ workspaceImportSummary' = 0
  /\ WorkspaceCall("CANCEL_APPROVAL_PROCESS")
  /\ UNCHANGED <<workspacesByPk, workspaceApprovals, importCompletedAt,
                 importCancelledAt, urlSelectedWorkspaceId, workspaceTopic, workspaceLog>>

\* onSuccess of BEGIN_WORKSPACE_IMPORT and of CANCEL_APPROVAL_PROCESS:
\* this.workspaceImportSummary = null
ImportCallSuccess(i) ==
  /\ i \in 1..Len(workspaceRequests)
  /\ workspaceRequests[i] \in {"BEGIN_WORKSPACE_IMPORT", "CANCEL_APPROVAL_PROCESS"}
  /\ workspaceImportSummary' = 0
  /\ WorkspaceCallDone(i)
  /\ UNCHANGED <<workspacesByPk, workspaceApprovals, importCompletedAt,
                 importCancelledAt, urlSelectedWorkspaceId, workspaceTopic, workspaceLog>>

\* a call fails: no action of the store has an onFail
WorkspaceCallFail(i) ==
  /\ i \in 1..Len(workspaceRequests)
  /\ WorkspaceCallDone(i)
  /\ UNCHANGED <<workspacesByPk, workspaceImportSummary, workspaceApprovals, importCompletedAt,
                 importCancelledAt, urlSelectedWorkspaceId, workspaceTopic, workspaceLog>>

\* onActivated: the watcher of userIsLoggedInAndInitialized runs at once and
\* fetches when the user is logged in; then the store subscribes to
\* `workspace/${this.selectedWorkspacePk}`, the topic as it is now.
workspacesOnActivated(loggedIn) ==
  /\ workspaceTopic = <<>>
  /\ IF loggedIn /\ Len(workspaceRequests) < MaxWorkspaceRequests
     THEN WorkspaceCall("FETCH_USER_WORKSPACES")
     ELSE UNCHANGED workspaceRequests
  /\ workspaceTopic' = Topic(selectedWorkspacePk)
  /\ UNCHANGED <<workspacesByPk, workspaceImportSummary, workspaceApprovals, importCompletedAt,
                 importCancelledAt, urlSelectedWorkspaceId, workspaceLog>>

\* The realtime store delivers an event of a workspace to the callbacks
\* subscribed on the topic of that workspace.
Delivered(eventType, workspacePk) ==
  /\ workspaceTopic = Topic(workspacePk)
  /\ Len(workspaceLog) < MaxWorkspaceEvents
  /\ workspaceLog' = Append(workspaceLog, eventType)

WorkspaceImportBeginApprovalProcess(workspacePk, userPk) ==
  /\ Delivered("WorkspaceImportBeginApprovalProcess", workspacePk)
  /\ importCancelledAt' = 0
  /\ importCompletedAt' = 0
  /\ workspaceImportSummary' = userPk
  /\ UNCHANGED <<workspacesByPk, workspaceApprovals, urlSelectedWorkspaceId, workspaceTopic,
                 workspaceRequests>>

WorkspaceImportCancelApprovalProcess(workspacePk, now) ==
  /\ Delivered("WorkspaceImportCancelApprovalProcess", workspacePk)
  /\ workspaceApprovals' = <<>>
  /\ workspaceImportSummary' = 0
  /\ importCancelledAt' = now
  /\ importCompletedAt' = 0
  /\ UNCHANGED <<workspacesByPk, urlSelectedWorkspaceId, workspaceTopic, workspaceRequests>>

ImportWorkspaceVote(workspacePk, userPk, vote) ==
  /\ Delivered("ImportWorkspaceVote", workspacePk)
  /\ IF selectedWorkspacePk = workspacePk
     THEN workspaceApprovals' = Put(workspaceApprovals, userPk, vote)
     ELSE UNCHANGED workspaceApprovals
  /\ UNCHANGED <<workspacesByPk, workspaceImportSummary, importCompletedAt, importCancelledAt,
                 urlSelectedWorkspaceId, workspaceTopic, workspaceRequests>>

WorkspaceImported_keepCancelled(workspacePk, now) ==
  /\ Delivered("WorkspaceImported", workspacePk)
  /\ workspaceApprovals' = <<>>
  /\ workspaceImportSummary' = 0
  /\ importCompletedAt' = now
  /\ UNCHANGED <<importCancelledAt, workspacesByPk, urlSelectedWorkspaceId, workspaceTopic,
                 workspaceRequests>>

WorkspaceImported(workspacePk, now) ==
  /\ Delivered("WorkspaceImported", workspacePk)
  /\ workspaceApprovals' = <<>>
  /\ workspaceImportSummary' = 0
  /\ importCompletedAt' = now
  /\ importCancelledAt' = 0
  /\ UNCHANGED <<workspacesByPk, urlSelectedWorkspaceId, workspaceTopic, workspaceRequests>>

\* the workspaces store as constructed: state: () => ({...})
InitWorkspaces ==
  /\ WorkspaceIdle
  /\ StoreIdle /\ LinIdle /\ WalkIdle
  /\ KeyedIdle /\ BulkIdle /\ EventIdle /\ SyncIdle /\ JobIdle /\ WorkerIdle /\ ViewIdle
  /\ SelectIdle /\ FlagIdle

exceptWorkspace == <<linVars, walkVars, storeVars, keyedVars, bulkVars, eventVars, syncVars,
                     jobVars, workerVars, viewVars, selectVars, flagVars>>

NextWorkspaces ==
  \/ (\E pk \in {0} \cup WorkspacePks : RouteChange(pk)) /\ UNCHANGED exceptWorkspace
  \/ FETCH_USER_WORKSPACES /\ UNCHANGED exceptWorkspace
  \/ (\E i \in 1..MaxWorkspaceRequests : FetchUserWorkspacesSuccess(i))
       /\ UNCHANGED exceptWorkspace
  \/ BEGIN_WORKSPACE_IMPORT /\ UNCHANGED exceptWorkspace
  \/ CANCEL_APPROVAL_PROCESS /\ UNCHANGED exceptWorkspace
  \/ (\E i \in 1..MaxWorkspaceRequests : ImportCallSuccess(i)) /\ UNCHANGED exceptWorkspace
  \/ (\E i \in 1..MaxWorkspaceRequests : WorkspaceCallFail(i)) /\ UNCHANGED exceptWorkspace
  \/ (\E loggedIn \in BOOLEAN : workspacesOnActivated(loggedIn)) /\ UNCHANGED exceptWorkspace
  \/ (\E workspacePk \in WorkspacePks, userPk \in UserPks :
        WorkspaceImportBeginApprovalProcess(workspacePk, userPk))
       /\ UNCHANGED exceptWorkspace
  \/ (\E workspacePk \in WorkspacePks, now \in Times :
        WorkspaceImportCancelApprovalProcess(workspacePk, now))
       /\ UNCHANGED exceptWorkspace
  \/ (\E workspacePk \in WorkspacePks, userPk \in UserPks, vote \in Votes :
        ImportWorkspaceVote(workspacePk, userPk, vote))
       /\ UNCHANGED exceptWorkspace
  \/ (\E workspacePk \in WorkspacePks, now \in Times : WorkspaceImported(workspacePk, now))
       /\ UNCHANGED exceptWorkspace

SpecWorkspaces == InitWorkspaces /\ [][NextWorkspaces]_vars

\* C36: after any sequence of import events (begin approval, cancel
\* approval, vote, imported) and import actions, importCompletedAt and
\* importCancelledAt are never both non-null, and workspaceImportSummary is
\* non-null only while both are null.
C36_ImportStateExclusive ==
  /\ importCompletedAt = 0 \/ importCancelledAt = 0
  /\ workspaceImportSummary # 0 => importCompletedAt = 0 /\ importCancelledAt = 0

\* an import is completed after an earlier one was cancelled, and a new
\* approval process has begun after a completed import
C36_Witness ==
  \E i, j \in 1..Len(workspaceLog) :
    /\ i < j
    /\ workspaceLog[i] = "WorkspaceImportCancelApprovalProcess"
    /\ workspaceLog[j] = "WorkspaceImported"
    /\ j = Len(workspaceLog)
    /\ importCompletedAt # 0

\* C37: the realtime subscription of the workspaces store is always on the
\* topic of the currently selected workspace: once subscribed, the topic is
\* 'workspace/<selected pk>', also after the selected workspace has become
\* known or has changed, and not the topic computed at activation time.
C37_SubscribedToSelectedWorkspace ==
  workspaceTopic # <<>> /\ selectedWorkspacePk # 0
    => workspaceTopic = Topic(selectedWorkspacePk)

\* ------------------------------------------------------------------------
\* Feature flags store
\* ------------------------------------------------------------------------
MaxPhFlags == 2
MaxPhCalls == 2

\* translation from store key to posthog feature flag name
FLAG_MAPPING ==
  [MODULES_TAB |-> "modules_tab",
   SECRETS |-> "secrets",
   INVITE_USER |-> "invite_user",
   SECRETS_MANAGEMENT |-> "secrets_management",
   WORKSPACE_BACKUPS |-> "workspaceBackups",
   COLLABORATORS |-> "collaborators",
   MUTLIPLAYER_CHANGESET_APPLY |-> "multiplayer_changeset_apply_flow",
   ABANDON_CHANGESET |-> "abandon_changeset"]

\* _.invert(FLAG_MAPPING): posthog name -> store key
PH_TO_STORE_FLAG_LOOKUP ==
  [name \in {FLAG_MAPPING[k] : k \in DOMAIN FLAG_MAPPING} |->
     CHOOSE k \in DOMAIN FLAG_MAPPING : FLAG_MAPPING[k] = name]

\* the names posthog can deliver: those of the mapping and one the store
\* does not know
PhNames == {FLAG_MAPPING[k] : k \in DOMAIN FLAG_MAPPING} \cup {"some_other_flag"}

\* _.each(phFlags, ...): a flag with a store key sets it to true
RECURSIVE EachPhFlag(_, _)
EachPhFlag(flags, phFlags) ==
  IF phFlags = <<>> THEN flags
  ELSE LET phFlag == Head(phFlags)
           after == IF phFlag \in DOMAIN PH_TO_STORE_FLAG_LOOKUP
                    THEN [flags EXCEPT ![PH_TO_STORE_FLAG_LOOKUP[phFlag]] = TRUE]
                    ELSE flags
       IN EachPhFlag(after, Tail(phFlags))

\* onActivated: posthog.onFeatureFlags(callback) registers the callback
flagsOnActivated ==
  /\ ~flagsActivated
  /\ flagsActivated' = TRUE
  /\ UNCHANGED <<featureFlags, phDelivered>>

\* posthog calls the callback with the list of the flags that are on
onFeatureFlags(phFlags) ==
  /\ flagsActivated
  /\ Len(phDelivered) < MaxPhCalls
  /\ featureFlags' = EachPhFlag(featureFlags, phFlags)
  /\ phDelivered' = Append(phDelivered, phFlags)
  /\ UNCHANGED flagsActivated

\* state: () => _.mapValues(FLAG_MAPPING, () => false)
InitFlags ==
  /\ featureFlags = [k \in DOMAIN FLAG_MAPPING |-> FALSE]
  /\ flagsActivated = FALSE
  /\ phDelivered = <<>>
  /\ StoreIdle /\ LinIdle /\ WalkIdle
  /\ KeyedIdle /\ BulkIdle /\ EventIdle /\ SyncIdle /\ JobIdle /\ WorkerIdle /\ ViewIdle
  /\ SelectIdle /\ WorkspaceIdle

exceptFlags == <<linVars, walkVars, storeVars, keyedVars, bulkVars, eventVars, syncVars,
                 jobVars, workerVars, viewVars, selectVars, workspaceVars>>

NextFlags ==
  \/ flagsOnActivated /\ UNCHANGED exceptFlags
  \/ (\E phFlags \in SeqsUpTo(PhNames, MaxPhFlags) : onFeatureFlags(phFlags))
       /\ UNCHANGED exceptFlags

SpecFlags == InitFlags /\ [][NextFlags]_vars

\* C38: all feature flags start false, and each posthog feature-flag
\* callback resets the local flags from the delivered data: after a callback
\* with flag list L, a store flag is true if and only if its posthog name is
\* in L.
C38_FlagsFollowLastCallback ==
  \A k \in DOMAIN FLAG_MAPPING :
    featureFlags[k] <=> /\ phDelivered # <<>>
                        /\ FLAG_MAPPING[k] \in Range(phDelivered[Len(phDelivered)])

====
